---- MODULE Spec2Model ----
(***************************************************************************)
(* Temporal fact store of sekai_memory_system: MemoryStore (entity         *)
(* resolution, conflict detection, supersession, filtered queries) over    *)
(* the SQLite tables created by DatabaseManager.                           *)
(*                                                                         *)
(* Every database statement is one atomic step; a MemoryStore method is a  *)
(* chain of such steps joined by awaits / callbacks, so calls issued by    *)
(* different requests interleave between statements.                       *)
(*                                                                         *)
(* Encodings: strings that the code inspects character by character        *)
(* (entity names) are sequences of one-character strings; uuids are        *)
(* numbers whose order stands for the string order that Array.sort() uses; *)
(* SQL NULL / JS undefined is NULL; a NULL objects column is <<>>.         *)
(***************************************************************************)
EXTENDS Integers, Sequences, FiniteSets, TLC

VARIABLES entities,   \* rows of table entities, in rowid order
          memories,   \* rows of table memories, in rowid order
          now,        \* the wall clock read by new Date()
          pc,         \* per call: the statement it is about to issue
          loc,        \* per call: its arguments, locals and result
          lastQuery   \* the result of the getMemories call that just ran

vars == <<entities, memories, now, pc, loc, lastQuery>>

----------------------------------------------------------------------------
(* Bounds *)

MaxMemories == 2      \* rows of table memories
MaxChapter == 3       \* chapter numbers 1..MaxChapter
MaxEntityId == 2      \* uuids available for new entities
MaxClock == 1         \* clock values 0..MaxClock

(* Program constants *)

NULL == 0
DEFAULT_USER_ID == 98
DEFAULT_WORLD_ID == 99

Procs == {1, 2}

----------------------------------------------------------------------------
(* Strings *)

Lowers == <<"a","b","c","d","e","f","g","h","i","j","k","l","m",
            "n","o","p","q","r","s","t","u","v","w","x","y","z">>
Uppers == <<"A","B","C","D","E","F","G","H","I","J","K","L","M",
            "N","O","P","Q","R","S","T","U","V","W","X","Y","Z">>

toLowerCaseChar(c) ==
  IF \E i \in 1..26 : Uppers[i] = c
    THEN Lowers[CHOOSE i \in 1..26 : Uppers[i] = c]
    ELSE c

toLowerCase(s) == [i \in 1..Len(s) |-> toLowerCaseChar(s[i])]

RECURSIVE trimStart(_)
trimStart(s) ==
  IF s # <<>> /\ Head(s) = " " THEN trimStart(Tail(s)) ELSE s

trim(s) ==
  LET RECURSIVE trimEnd(_)
      trimEnd(t) ==
        IF t # <<>> /\ t[Len(t)] = " " THEN trimEnd(SubSeq(t, 1, Len(t) - 1)) ELSE t
  IN  trimEnd(trimStart(s))

\* s.split(' '): the words between single spaces (empty words included)
RECURSIVE split(_)
split(s) ==
  IF \E i \in 1..Len(s) : s[i] = " "
    THEN LET i == CHOOSE j \in 1..Len(s) :
                    s[j] = " " /\ \A k \in 1..(j - 1) : s[k] # " "
         IN  <<SubSeq(s, 1, i - 1)>> \o split(SubSeq(s, i + 1, Len(s)))
    ELSE <<s>>

normalizeEntityName(name) ==
  LET \* words.join(' ')
      RECURSIVE join(_)
      join(words) ==
        IF Len(words) = 0 THEN <<>>
        ELSE IF Len(words) = 1 THEN words[1]
        ELSE words[1] \o <<" ">> \o join(Tail(words))
      \* word.charAt(0).toUpperCase() + word.slice(1).toLowerCase()
      titleCaseWord(w) ==
        LET toUpperCaseChar(c) ==
              IF \E i \in 1..26 : Lowers[i] = c
                THEN Uppers[CHOOSE i \in 1..26 : Lowers[i] = c]
                ELSE c
        IN
        [i \in 1..Len(w) |-> IF i = 1 THEN toUpperCaseChar(w[i]) ELSE toLowerCaseChar(w[i])]
  IN
  LET words == split(trim(name))
  IN  join([i \in 1..Len(words) |-> titleCaseWord(words[i])])

STR_user == <<"u","s","e","r">>
STR_player == <<"p","l","a","y","e","r">>
STR_world == <<"w","o","r","l","d">>
STR_environment == <<"e","n","v","i","r","o","n","m","e","n","t">>

----------------------------------------------------------------------------
(* Table entities *)

seedDefaultData ==
  << [id |-> DEFAULT_USER_ID, name |-> <<"U","s","e","r">>, kind |-> "user",
      aliases |-> << <<"P","l","a","y","e","r">>, <<"H","u","m","a","n">> >>],
     [id |-> DEFAULT_WORLD_ID, name |-> <<"W","o","r","l","d">>, kind |-> "world",
      aliases |-> << <<"E","n","v","i","r","o","n","m","e","n","t">>,
                     <<"S","e","t","t","i","n","g">> >>] >>

\* SELECT * FROM entities WHERE name = ? OR aliases LIKE ?  (db.get: first row)
getEntityByNameOrAlias(ents, nameOrAlias) ==
  LET \* aliases LIKE '%"<name>"%' on the JSON array of aliases: LIKE compares ASCII
      \* letters without regard to case; the quotes delimit one whole alias
      aliasesLike(row, name) ==
        \E i \in 1..Len(row.aliases) : toLowerCase(row.aliases[i]) = toLowerCase(name)
  IN
  LET normalizedName == normalizeEntityName(nameOrAlias)
      hit(i) == ents[i].name = normalizedName \/ aliasesLike(ents[i], nameOrAlias)
  IN  IF \E i \in 1..Len(ents) : hit(i)
        THEN ents[CHOOSE i \in 1..Len(ents) : hit(i) /\ \A j \in 1..(i - 1) : ~hit(j)].id
        ELSE NULL

\* mutant: column name is not UNIQUE
uniqueConstraintFailed_NameNotUnique(ents, row) ==
  \E i \in 1..Len(ents) : ents[i].id = row.id

\* name TEXT UNIQUE NOT NULL, id TEXT PRIMARY KEY
uniqueConstraintFailed(ents, row) ==
  \E i \in 1..Len(ents) : ents[i].name = row.name \/ ents[i].id = row.id

isSpecialName(entityName) ==
  toLowerCase(entityName) \in {STR_user, STR_player, STR_world, STR_environment}

specialId(entityName) ==
  IF toLowerCase(entityName) \in {STR_user, STR_player}
    THEN DEFAULT_USER_ID ELSE DEFAULT_WORLD_ID

----------------------------------------------------------------------------
(* Table memories *)

\* Array.prototype.sort() on a list of ids (insertion into a sorted prefix)
RECURSIVE sortIds(_)
sortIds(ids) ==
  IF Len(ids) <= 1 THEN ids
  ELSE LET rest == sortIds(Tail(ids))
           x == Head(ids)
           k == Cardinality({i \in 1..Len(rest) : rest[i] < x})
       IN  SubSeq(rest, 1, k) \o <<x>> \o SubSeq(rest, k + 1, Len(rest))

\* mutant: the row of a supersession points at itself
memoryRow_SupersedesItself(mems, memory, subjectIds, objectIds, supersedesId, createdAt) ==
  [ id             |-> Len(mems) + 1,
    type           |-> memory.type,
    predicate      |-> memory.predicate,
    subjects       |-> subjectIds,
    objects        |-> objectIds,
    canonical_fact |-> memory.canonical_fact,
    raw_content    |-> memory.raw_content,
    confidence     |-> memory.confidence,
    valid_from     |-> memory.valid_from,
    valid_to       |-> memory.valid_to,
    status         |-> "active",
    supersedes_id  |-> IF supersedesId # NULL THEN Len(mems) + 1 ELSE NULL,
    created_at     |-> createdAt ]

\* the row written by the INSERT of saveMemory / supersedeMemory; the uuid of
\* the row is its position in the table (only its identity is ever used)
memoryRow(mems, memory, subjectIds, objectIds, supersedesId, createdAt) ==
  [ id             |-> Len(mems) + 1,
    type           |-> memory.type,
    predicate      |-> memory.predicate,
    subjects       |-> subjectIds,
    objects        |-> objectIds,
    canonical_fact |-> memory.canonical_fact,
    raw_content    |-> memory.raw_content,
    confidence     |-> memory.confidence,
    valid_from     |-> memory.valid_from,
    valid_to       |-> memory.valid_to,
    status         |-> "active",
    supersedes_id  |-> supersedesId,
    created_at     |-> createdAt ]

\* the SELECT of findConflicting, given the resolved ids
findConflictingRows(mems, memory, subjectIds, objectIds) ==
  LET subjectsJson == sortIds(subjectIds)
      objectsJson == sortIds(objectIds)
      match(row) ==
        /\ row.type = memory.type
        /\ row.predicate = memory.predicate
        /\ row.subjects = subjectsJson
        /\ row.status = "active"
        /\ IF objectIds # <<>> THEN row.objects = objectsJson
                               ELSE row.objects = <<>>
  IN  SelectSeq(mems, match)

\* conflictingMemories.some(existing => existing.canonical_fact === memory.canonical_fact)
isDupe(conflicts, memory) ==
  \E i \in 1..Len(conflicts) : conflicts[i].canonical_fact = memory.canonical_fact

\* conflictingMemories.find(...) : the first identical one
duplicateOf(conflicts, memory) ==
  conflicts[CHOOSE i \in 1..Len(conflicts) :
              /\ conflicts[i].canonical_fact = memory.canonical_fact
              /\ \A j \in 1..(i - 1) :
                    conflicts[j].canonical_fact # memory.canonical_fact]

\* conflictingMemories.reduce((latest, current) =>
\*     current.created_at > latest.created_at ? current : latest)
RECURSIVE reduceLatest(_, _)
reduceLatest(latest, rest) ==
  IF rest = <<>> THEN latest
  ELSE reduceLatest(IF Head(rest).created_at > latest.created_at
                      THEN Head(rest) ELSE latest, Tail(rest))

\* mutant: the old window is closed at the new fact's own chapter
endChapter_SameChapter(newMemory) ==
  IF newMemory.valid_from > 1 THEN newMemory.valid_from ELSE 1

\* const endChapter = Math.max(1, newMemory.valid_from - 1)
endChapter(newMemory) ==
  IF newMemory.valid_from - 1 > 1 THEN newMemory.valid_from - 1 ELSE 1

\* mutant: the old fact is rewritten in place
supersedeUpdate_InPlace(mems, oldMemoryId, newMemory) ==
  [i \in 1..Len(mems) |->
     IF mems[i].id = oldMemoryId
       THEN [mems[i] EXCEPT !.canonical_fact = newMemory.canonical_fact,
                            !.raw_content = newMemory.raw_content,
                            !.confidence = newMemory.confidence,
                            !.valid_from = newMemory.valid_from]
       ELSE mems[i]]

\* mutant: the old fact is marked duplicate
supersedeUpdate_MarksDuplicate(mems, oldMemoryId, newMemory) ==
  [i \in 1..Len(mems) |->
     IF mems[i].id = oldMemoryId
       THEN [mems[i] EXCEPT !.valid_to = endChapter(newMemory),
                            !.status = "duplicate"]
       ELSE mems[i]]

\* UPDATE memories SET valid_to = ?, status = 'superseded' WHERE id = ?
supersedeUpdate(mems, oldMemoryId, newMemory) ==
  [i \in 1..Len(mems) |->
     IF mems[i].id = oldMemoryId
       THEN [mems[i] EXCEPT !.valid_to = endChapter(newMemory),
                            !.status = "superseded"]
       ELSE mems[i]]

----------------------------------------------------------------------------
(* Inputs *)

Alice == <<"A","l">>
Bob == <<"B","o">>

candidate(type, subjects, objects, canonical_fact, valid_from, valid_to) ==
  [ type           |-> type,
    predicate      |-> "trusts",
    subjects       |-> subjects,
    objects        |-> objects,
    canonical_fact |-> canonical_fact,
    raw_content    |-> "raw",
    confidence     |-> 9,
    valid_from     |-> valid_from,
    valid_to       |-> valid_to ]

----------------------------------------------------------------------------
(* Calls *)

IdleLoc ==
  [ call        |-> "none",     \* "ingest" | "resolve"
    memory      |-> [type |-> "none"],
    entityName  |-> <<>>,       \* argument of a resolveEntity call
    phase       |-> "none",     \* the method that is resolving entities
    list        |-> "none",     \* "subjects" | "objects"
    subjectIds  |-> <<>>,
    objectIds   |-> <<>>,
    entityId    |-> NULL,       \* uuidv4() of the entity being created
    oldMemoryId |-> NULL,
    ts          |-> 0,          \* const now = new Date()
    result      |-> ([action |-> "none", id |-> NULL, error |-> "none"]) ]

NoQuery == [ran |-> FALSE, filter |-> ([status |-> "none"]), rows |-> <<>>]

\* the call returns or throws: only its arguments and outcome stay visible
finish(l, result) ==
  [IdleLoc EXCEPT !.call = l.call, !.memory = l.memory,
                  !.entityName = l.entityName, !.entityId = l.entityId,
                  !.oldMemoryId = l.oldMemoryId, !.result = result]

failed(l, msg) == finish(l, [action |-> "error", id |-> NULL, error |-> msg])

\* the name that resolveEntities is resolving
currentName(l) ==
  IF l.call = "resolve" THEN l.entityName
  ELSE IF l.list = "subjects" THEN l.memory.subjects[Len(l.subjectIds) + 1]
  ELSE l.memory.objects[Len(l.objectIds) + 1]

\* resolveEntity returned id: the loop of resolveEntities goes on
resolved(l, id) ==
  LET \* the statement that follows the resolveEntities calls of a method
      afterResolveEntities(phase) ==
        CASE phase = "findConflicting" -> "select"
          [] phase = "saveMemory"      -> "save_insert"
          [] phase = "supersedeMemory" -> "supersede_update"
  IN
  IF l.call = "resolve"
    THEN [pc |-> "done",
          loc |-> finish(l, [action |-> "resolved", id |-> id, error |-> "none"])]
    ELSE LET l2 == IF l.list = "subjects"
                     THEN [l EXCEPT !.subjectIds = Append(@, id), !.entityId = NULL]
                     ELSE [l EXCEPT !.objectIds = Append(@, id), !.entityId = NULL]
         IN  IF l2.list = "subjects" /\ Len(l2.subjectIds) < Len(l2.memory.subjects)
               THEN [pc |-> "lookup", loc |-> l2]
             ELSE IF l2.list = "subjects" /\ Len(l2.memory.objects) > 0
               THEN [pc |-> "lookup", loc |-> [l2 EXCEPT !.list = "objects"]]
             ELSE IF l2.list = "objects" /\ Len(l2.objectIds) < Len(l2.memory.objects)
               THEN [pc |-> "lookup", loc |-> l2]
             ELSE [pc |-> afterResolveEntities(l2.phase), loc |-> l2]

\* a method starts its resolveEntities(memory.subjects) call
resolveEntities(l, phase) ==
  [l EXCEPT !.phase = phase, !.list = "subjects",
            !.subjectIds = <<>>, !.objectIds = <<>>]

goto(p, r) ==
  /\ pc' = [pc EXCEPT ![p] = r.pc]
  /\ loc' = [loc EXCEPT ![p] = r.loc]

Init ==
  /\ entities = seedDefaultData
  /\ memories = <<>>
  /\ now = 0
  /\ pc = [p \in Procs |-> "idle"]
  /\ loc = [p \in Procs |-> IdleLoc]
  /\ lastQuery = NoQuery

\* processMemoryWithConflictResolution(memory) is called
StartIngest(p, memory) ==
  /\ pc[p] = "idle"
  /\ Len(memories) < MaxMemories
  /\ goto(p, [pc |-> "lookup",
              loc |-> resolveEntities([IdleLoc EXCEPT !.call = "ingest",
                                                      !.memory = memory],
                                      "findConflicting")])
  /\ lastQuery' = NoQuery
  /\ UNCHANGED <<entities, memories, now>>

\* resolveEntity(entityName) is called on its own
StartResolve(p, entityName) ==
  /\ pc[p] = "idle"
  /\ goto(p, [pc |-> "lookup",
              loc |-> [IdleLoc EXCEPT !.call = "resolve", !.entityName = entityName]])
  /\ lastQuery' = NoQuery
  /\ UNCHANGED <<entities, memories, now>>

\* resolveEntity up to its INSERT: special cases, then getEntityByNameOrAlias
Lookup(p) ==
  LET \* uuidv4(): an id that no entity and no running call holds
      FreeEntityIds ==
        (1..MaxEntityId) \ ({entities[i].id : i \in 1..Len(entities)}
                              \cup {loc[q].entityId : q \in Procs})
  IN
  /\ pc[p] = "lookup"
  /\ LET name == currentName(loc[p])
         found == getEntityByNameOrAlias(entities, name)
     IN  IF isSpecialName(name) THEN goto(p, resolved(loc[p], specialId(name)))
         ELSE IF found # NULL THEN goto(p, resolved(loc[p], found))
         ELSE \E e \in FreeEntityIds :
                goto(p, [pc |-> "insert_entity",
                         loc |-> [loc[p] EXCEPT !.entityId = e]])
  /\ lastQuery' = NoQuery
  /\ UNCHANGED <<entities, memories, now>>

\* INSERT INTO entities and its callback
InsertEntity(p) ==
  /\ pc[p] = "insert_entity"
  /\ LET name == currentName(loc[p])
         row == [id |-> loc[p].entityId, name |-> normalizeEntityName(name),
                 kind |-> "character", aliases |-> <<name>>]
     IN  IF uniqueConstraintFailed(entities, row)
           THEN /\ goto(p, [pc |-> "retry_lookup", loc |-> loc[p]])
                /\ UNCHANGED entities
           ELSE /\ entities' = Append(entities, row)
                /\ goto(p, resolved(loc[p], row.id))
  /\ lastQuery' = NoQuery
  /\ UNCHANGED <<memories, now>>

\* after 'UNIQUE constraint failed': getEntityByNameOrAlias again
RetryLookup(p) ==
  /\ pc[p] = "retry_lookup"
  /\ LET found == getEntityByNameOrAlias(entities, currentName(loc[p]))
     IN  IF found # NULL THEN goto(p, resolved(loc[p], found))
         ELSE goto(p, [pc |-> "done",
                       loc |-> failed(loc[p], "resolve after constraint failure")])
  /\ lastQuery' = NoQuery
  /\ UNCHANGED <<entities, memories, now>>

\* new Date(): the clock has not moved or has moved on since the last reading
ReadClock(t) ==
  /\ t \in {now, now + 1}
  /\ t <= MaxClock
  /\ now' = t

\* findConflicting's SELECT, then the decision of
\* processMemoryWithConflictResolution on its rows
Select(p) ==
  LET mostRecent(conflicts) == reduceLatest(Head(conflicts), Tail(conflicts))
  IN
  /\ pc[p] = "select"
  /\ loc[p].call = "ingest"
  /\ LET l == loc[p]
         conflictingMemories ==
           findConflictingRows(memories, l.memory, l.subjectIds, l.objectIds)
     IN  IF Len(conflictingMemories) = 0
           THEN /\ goto(p, [pc |-> "lookup", loc |-> resolveEntities(l, "saveMemory")])
                /\ UNCHANGED now
         ELSE IF isDupe(conflictingMemories, l.memory)
           THEN /\ goto(p, [pc |-> "done",
                            loc |-> finish(l, [action |-> "duplicate",
                                               id |-> duplicateOf(conflictingMemories,
                                                                  l.memory).id,
                                               error |-> "none"])])
                /\ UNCHANGED now
         ELSE \E t \in 0..MaxClock :
                /\ ReadClock(t)
                /\ goto(p, [pc |-> "lookup",
                            loc |-> resolveEntities(
                                      [l EXCEPT !.oldMemoryId =
                                                  mostRecent(conflictingMemories).id,
                                                !.ts = t],
                                      "supersedeMemory")])
  /\ lastQuery' = NoQuery
  /\ UNCHANGED <<entities, memories>>

\* saveMemory's INSERT
SaveInsert(p) ==
  /\ pc[p] = "save_insert"
  /\ \E t \in 0..MaxClock :
       /\ ReadClock(t)
       /\ LET l == loc[p]
              row == memoryRow(memories, l.memory, l.subjectIds, l.objectIds, NULL, t)
          IN  /\ memories' = Append(memories, row)
              /\ goto(p, [pc |-> "done",
                          loc |-> finish(l, [action |-> "created", id |-> row.id,
                                             error |-> "none"])])
  /\ lastQuery' = NoQuery
  /\ UNCHANGED entities

\* supersedeMemory's first UPDATE
SupersedeUpdate(p) ==
  /\ pc[p] = "supersede_update"
  /\ memories' = supersedeUpdate(memories, loc[p].oldMemoryId, loc[p].memory)
  /\ pc' = [pc EXCEPT ![p] = "supersede_insert"]
  /\ lastQuery' = NoQuery
  /\ UNCHANGED <<entities, now, loc>>

\* supersedeMemory's INSERT succeeds
SupersedeInsert(p) ==
  /\ pc[p] = "supersede_insert"
  /\ LET l == loc[p]
         row == memoryRow(memories, l.memory, l.subjectIds, l.objectIds,
                          l.oldMemoryId, l.ts)
     IN  /\ memories' = Append(memories, row)
         /\ goto(p, [pc |-> "done",
                     loc |-> finish(l, [action |-> "superseded", id |-> row.id,
                                        error |-> "none"])])
  /\ lastQuery' = NoQuery
  /\ UNCHANGED <<entities, now>>

\* supersedeMemory's INSERT fails: the callback issues the rollback UPDATE
SupersedeInsertFails(p) ==
  /\ pc[p] = "supersede_insert"
  /\ pc' = [pc EXCEPT ![p] = "rollback"]
  /\ lastQuery' = NoQuery
  /\ UNCHANGED <<entities, memories, now, loc>>

\* the rollback UPDATE runs or fails; its callback ignores the error and
\* rejects with the error of the INSERT
Rollback(p) ==
  LET \* UPDATE memories SET valid_to = NULL, status = 'active' WHERE id = ?
      rollbackUpdate(mems, oldMemoryId) ==
        [i \in 1..Len(mems) |->
           IF mems[i].id = oldMemoryId
             THEN [mems[i] EXCEPT !.valid_to = NULL, !.status = "active"]
             ELSE mems[i]]
  IN
  /\ pc[p] = "rollback"
  /\ \E applied \in BOOLEAN :
       memories' = IF applied THEN rollbackUpdate(memories, loc[p].oldMemoryId)
                              ELSE memories
  /\ goto(p, [pc |-> "done", loc |-> failed(loc[p], "insert new memory")])
  /\ lastQuery' = NoQuery
  /\ UNCHANGED <<entities, now>>

\* a statement whose callback rejects on error fails (err is set)
StorageFailure(p) ==
  /\ \/ pc[p] \in {"insert_entity", "retry_lookup", "select", "save_insert",
                   "supersede_update"}
     \/ pc[p] = "lookup" /\ ~isSpecialName(currentName(loc[p]))
  /\ goto(p, [pc |-> "done", loc |-> failed(loc[p], pc[p])])
  /\ lastQuery' = NoQuery
  /\ UNCHANGED <<entities, memories, now>>

\* the caller has taken the result
Return(p) ==
  /\ pc[p] = "done"
  /\ goto(p, [pc |-> "idle", loc |-> IdleLoc])
  /\ lastQuery' = NoQuery
  /\ UNCHANGED <<entities, memories, now>>

----------------------------------------------------------------------------
(* Queries *)

UNDEFINED == -1

emptyFilter ==
  [ type          |-> {},
    characterId   |-> NULL,
    predicates    |-> {},
    chapterNumber |-> UNDEFINED,
    chapterRange  |-> <<>>,
    validAt       |-> UNDEFINED,
    status        |-> "" ]

\* mutant: the window excludes its last chapter (valid_to > ?)
window_OpenEnd(row, hi, lo) ==
  row.valid_from <= hi /\ (row.valid_to = NULL \/ row.valid_to > lo)

\* valid_from <= ? AND (valid_to IS NULL OR valid_to >= ?)
window(row, hi, lo) ==
  row.valid_from <= hi /\ (row.valid_to = NULL \/ row.valid_to >= lo)

\* the WHERE clause of buildWhereClause(filter), evaluated on a row
buildWhereClause(row, filter) ==
  LET \* subjects LIKE '%"<id>"%': the JSON array names the id
      idsLike(ids, id) == \E i \in 1..Len(ids) : ids[i] = id
  IN
  /\ row.status = (IF filter.status # "" THEN filter.status ELSE "active")
  /\ filter.type # {} => row.type \in filter.type
  /\ filter.characterId # NULL =>
       idsLike(row.subjects, filter.characterId)
         \/ idsLike(row.objects, filter.characterId)
  /\ filter.predicates # {} => row.predicate \in filter.predicates
  /\ filter.chapterNumber # UNDEFINED =>
       window(row, filter.chapterNumber, filter.chapterNumber)
  /\ filter.chapterRange # <<>> =>
       window(row, filter.chapterRange[2], filter.chapterRange[1])
  /\ filter.validAt # UNDEFINED => window(row, filter.validAt, filter.validAt)

\* SELECT * FROM memories <where> ORDER BY created_at DESC: every order of the
\* matching rows that the ORDER BY allows (rows of one created_at in any order)
getMemories(mems, filter) ==
  LET hits == {i \in 1..Len(mems) : buildWhereClause(mems[i], filter)}
      n == Cardinality(hits)
      orders == {o \in [1..n -> hits] :
                   /\ \A i, j \in 1..n : i # j => o[i] # o[j]
                   /\ \A i, j \in 1..n :
                        i < j => mems[o[i]].created_at >= mems[o[j]].created_at}
  IN  {[i \in 1..n |-> mems[o[i]]] : o \in orders}

\* getActiveMemoriesAtChapter(chapter, filter)
getActiveMemoriesAtChapter(mems, chapter, filter) ==
  getMemories(mems, [filter EXCEPT !.validAt = chapter, !.status = "active"])

\* getMemories(filter) is called and returns
Query(filter) ==
  /\ \E rows \in getMemories(memories, filter) :
       lastQuery' = [ran |-> TRUE, filter |-> filter, rows |-> rows]
  /\ UNCHANGED <<entities, memories, now, pc, loc>>

----------------------------------------------------------------------------
(* Specifications *)

Memories ==
  LET \* validateStructuredMemory: TRUE iff no error is pushed (confidence is in tenths)
      validateStructuredMemory(memory) ==
        /\ memory.type \in {"C2U", "IC", "WM"}
        /\ memory.predicate # ""
        /\ Len(memory.subjects) # 0
        /\ memory.type = "IC" => Len(memory.objects) # 0
        /\ memory.canonical_fact # ""
        /\ memory.raw_content # ""
        /\ memory.confidence >= 1 /\ memory.confidence <= 10
        /\ memory.valid_from >= 1
        /\ memory.valid_to # NULL => memory.valid_to >= memory.valid_from
  IN
  LET \* facts about the pair in either order of the subjects, and the inter-character
      \* fact over several windows (among them objects missing, and a window that
      \* ends before it begins)
      RawMemories ==
        LET Facts == {"Alice trusts Bob", "Alice distrusts Bob"}
        IN
        { candidate("C2U", ss, <<>>, cf, 1, NULL) :
            ss \in {<<Alice, Bob>>, <<Bob, Alice>>}, cf \in Facts }
        \cup
        { candidate("IC", <<Alice>>, oo, cf, vf, vt) :
            oo \in {<<Bob>>, <<>>}, cf \in Facts,
            vf \in {1, MaxChapter}, vt \in {NULL, 1} }
  IN
            { m \in RawMemories : validateStructuredMemory(m) }

ResolveStep(p) ==
  \/ Lookup(p)
  \/ InsertEntity(p)

IngestStep(p) ==
  \/ Select(p)
  \/ SaveInsert(p)
  \/ SupersedeUpdate(p)
  \/ SupersedeInsert(p)

Fault(p) ==
  \/ SupersedeInsertFails(p)
  \/ Rollback(p)
  \/ StorageFailure(p)

\* Calls run one at a time and every statement succeeds.
Next ==
  \/ \E memory \in Memories : StartIngest(1, memory)
  \/ ResolveStep(1)
  \/ IngestStep(1)
  \/ Return(1)

Spec == Init /\ [][Next]_vars

\* Calls run one at a time, queries among them.
WindowMemories == { m \in Memories : m.type = "IC" }

NextQuery ==
  \/ \E memory \in WindowMemories : StartIngest(1, memory)
  \/ ResolveStep(1)
  \/ IngestStep(1)
  \/ Return(1)
  \/ \E filter \in ({ [emptyFilter EXCEPT !.validAt = c, !.status = st] :
                        c \in {UNDEFINED} \cup (1..MaxChapter), st \in {"", "superseded"} }) :
       pc[1] = "idle" /\ ~lastQuery.ran /\ Query(filter)

SpecQuery == Init /\ [][NextQuery]_vars

NextFaults ==
  \/ \E memory \in (WindowMemories) : StartIngest(1, memory)
  \/ ResolveStep(1)
  \/ IngestStep(1)
  \/ Fault(1)
  \/ Return(1)

SpecFaults == Init /\ [][NextFaults]_vars

NextConc ==
  \/ \E p \in Procs, memory \in { m \in Memories : /\ m.type = "IC" /\ m.valid_to = NULL
                                                       /\ m.valid_from = MaxChapter } :
       StartIngest(p, memory)
  \/ \E p \in Procs : ResolveStep(p) \/ RetryLookup(p) \/ IngestStep(p) \/ Return(p)
  \/ Query(emptyFilter)

SpecConc == Init /\ [][NextConc]_vars

NextResolve ==
  \/ \E p \in Procs, name \in ({ <<"B","o">>, <<"b","o">>, <<"B","O"," ">>, <<"A","l">>,
                                 <<"U","s","e","r">> }) : StartResolve(p, name)
  \/ \E p \in Procs : ResolveStep(p) \/ RetryLookup(p) \/ Return(p)

SpecResolve == Init /\ [][NextResolve]_vars

----------------------------------------------------------------------------
(* Properties *)

\* the conflict key of a stored fact
conflictKey(row) ==
  <<row.type, row.predicate, sortIds(row.subjects), sortIds(row.objects)>>

Returned(p, actions) ==
  pc[p] = "done" /\ loc[p].call = "ingest" /\ loc[p].result.action \in actions

rowOf(id) == memories[CHOOSE i \in 1..Len(memories) : memories[i].id = id]

\* C1: once ingest(c) has returned fact id X, ingesting c again finds a
\* conflicting active fact with c's canonical_fact and returns duplicate with
\* the id X (the duplicate path writes nothing).
C1_SecondIngestIsDuplicate ==
  LET \* the ids resolveEntities returns for names whose entities exist
      idsOf(names) ==
        [i \in 1..Len(names) |->
           IF isSpecialName(names[i]) THEN specialId(names[i])
           ELSE getEntityByNameOrAlias(entities, names[i])]
  IN
  \A p \in Procs :
    Returned(p, {"created", "superseded", "duplicate"}) =>
      LET c == loc[p].memory
          again == findConflictingRows(memories, c, idsOf(c.subjects),
                                       idsOf(c.objects))
      IN  /\ isDupe(again, c)
          /\ duplicateOf(again, c).id = loc[p].result.id

\* C2: when ingest of B returns superseded, the fact A that B supersedes has
\* status superseded and valid_to = max(1, B.valid_from - 1), and B is active
\* with supersedes_id = A.id; valid_from 7 closes the old window at 6 and
\* valid_from 5 closes it at 4.
C2_SupersessionClosesWindow ==
  /\ \A p \in Procs :
       Returned(p, {"superseded"}) =>
         LET B == rowOf(loc[p].result.id)
             A == rowOf(B.supersedes_id)
         IN  /\ B.status = "active"
             /\ B.supersedes_id # NULL
             /\ B.canonical_fact = loc[p].memory.canonical_fact
             /\ B.valid_from = loc[p].memory.valid_from
             /\ A.status = "superseded"
             /\ A.canonical_fact # B.canonical_fact
             /\ A.type = B.type /\ A.predicate = B.predicate
             /\ A.valid_to = (IF B.valid_from >= 2 THEN B.valid_from - 1 ELSE 1)
  /\ endChapter([valid_from |-> 7]) = 6
  /\ endChapter([valid_from |-> 5]) = 4
  /\ endChapter([valid_from |-> 1]) = 1

\* C2 witness: a supersession by a fact of the last chapter has returned and
\* closed the old window one chapter earlier
C2_Witness ==
  \E p \in Procs :
    /\ Returned(p, {"superseded"})
    /\ loc[p].memory.valid_from = MaxChapter
    /\ rowOf(rowOf(loc[p].result.id).supersedes_id).valid_to = MaxChapter - 1
    /\ rowOf(rowOf(loc[p].result.id).supersedes_id).status = "superseded"

\* C3: an ingest never returns created while another active fact has the same
\* type and predicate and names the same subjects and objects in another order.
C3_ConflictKeySymmetry ==
  \A p \in Procs :
    Returned(p, {"created"}) =>
      LET new == rowOf(loc[p].result.id)
      IN  ~ \E i \in 1..Len(memories) :
              /\ memories[i].id # new.id
              /\ memories[i].status = "active"
              /\ conflictKey(memories[i]) = conflictKey(new)
              /\ \/ memories[i].subjects # new.subjects
                 \/ memories[i].objects # new.objects

\* C4: a getMemories call with validAt = C and no status returns a stored fact
\* iff valid_from <= C, valid_to is null or >= C, and status = active.
C4_TimeGating ==
  (lastQuery.ran /\ lastQuery.filter.validAt # UNDEFINED
     /\ lastQuery.filter.status = "") =>
    \A i \in 1..Len(memories) :
      (\E k \in 1..Len(lastQuery.rows) : lastQuery.rows[k] = memories[i])
        <=> /\ memories[i].valid_from <= lastQuery.filter.validAt
            /\ \/ memories[i].valid_to = NULL
               \/ memories[i].valid_to >= lastQuery.filter.validAt
            /\ memories[i].status = "active"

\* C4 witness: a validAt query has returned an active fact whose window ends at
\* the queried chapter and left out a superseded fact whose window holds it
C4_Witness ==
  /\ lastQuery.ran /\ lastQuery.filter.validAt # UNDEFINED
  /\ lastQuery.filter.status = ""
  /\ \E k \in 1..Len(lastQuery.rows) :
       lastQuery.rows[k].valid_to = lastQuery.filter.validAt
  /\ \E i \in 1..Len(memories) :
       /\ memories[i].status = "superseded"
       /\ memories[i].valid_from <= lastQuery.filter.validAt
       /\ memories[i].valid_to >= lastQuery.filter.validAt

\* C5: the outcome decided after findConflicting is created iff no active fact
\* shares the candidate's conflict key, duplicate iff one of those has the
\* candidate's canonical_fact, superseded otherwise.
C5_OutcomeFollowsConflictKey ==
  [][LET \* the outcome call p has decided on when it leaves its SELECT
         decided(p) ==
           IF pc'[p] = "done" THEN loc'[p].result.action
           ELSE IF loc'[p].phase = "saveMemory" THEN "created"
           ELSE "superseded"
         \* the outcome the conflict key prescribes, from the active facts that
         \* share the key of the candidate of call p
         prescribed(p) ==
           LET c == loc[p].memory
               sharing == {i \in 1..Len(memories) :
                             /\ memories[i].status = "active"
                             /\ conflictKey(memories[i]) =
                                  <<c.type, c.predicate, sortIds(loc[p].subjectIds),
                                    sortIds(loc[p].objectIds)>>}
           IN  IF sharing = {} THEN "created"
               ELSE IF \E i \in sharing : memories[i].canonical_fact = c.canonical_fact
                 THEN "duplicate"
               ELSE "superseded"
     IN  \A p \in Procs :
           (pc[p] = "select" /\ pc'[p] # "select") => decided(p) = prescribed(p)]_vars

\* C6: no two active facts share a conflict key.
C6_OneActivePerKey ==
  \A i, j \in 1..Len(memories) :
    (i # j /\ memories[i].status = "active" /\ memories[j].status = "active")
      => conflictKey(memories[i]) # conflictKey(memories[j])

\* C7: every stored fact whose valid_to is set has valid_to >= valid_from.
C7_WindowNotInverted ==
  \A i \in 1..Len(memories) :
    memories[i].valid_to # NULL => memories[i].valid_to >= memories[i].valid_from

\* C8: when supersedeMemory rejects because its INSERT failed, the old fact is
\* active with valid_to cleared and no row of the new fact exists.
C8_FailedSupersessionRolledBack ==
  \A p \in Procs :
    (pc[p] = "done" /\ loc[p].result.error = "insert new memory") =>
      /\ rowOf(loc[p].oldMemoryId).status = "active"
      /\ rowOf(loc[p].oldMemoryId).valid_to = NULL
      /\ ~ \E i \in 1..Len(memories) :
             memories[i].supersedes_id = loc[p].oldMemoryId

\* C9: resolveEntity calls for one name that have returned, raced or not, all
\* returned the same entity id, none threw, and exactly one entity has the
\* name's canonical form.
C9_EntityRaceTolerated ==
  /\ \A p \in Procs : pc[p] = "done" => loc[p].result.action = "resolved"
  /\ \A p, q \in Procs :
       (pc[p] = "done" /\ pc[q] = "done"
          /\ loc[p].entityName = loc[q].entityName)
         => loc[p].result.id = loc[q].result.id
  /\ \A p \in Procs :
       (pc[p] = "done" /\ ~isSpecialName(loc[p].entityName)) =>
         Cardinality({i \in 1..Len(entities) :
                        entities[i].name = normalizeEntityName(loc[p].entityName)}) = 1

\* C9 witness: two calls for one unknown name have raced; one created the
\* entity, the other lost the INSERT and returned the winner's id
C9_Witness ==
  \E p, q \in Procs :
    /\ p # q /\ pc[p] = "done" /\ pc[q] = "done"
    /\ loc[p].entityName = loc[q].entityName
    /\ loc[p].entityId = loc[p].result.id
    /\ loc[q].entityId # NULL /\ loc[q].entityId # loc[q].result.id
    /\ loc[q].result.id = loc[p].result.id

\* C10: no getMemories call runs on a store in which a fact is superseded and
\* its successor is not stored.
C10_NoIntermediateStateObserved ==
  lastQuery.ran =>
    \A i \in 1..Len(memories) :
      memories[i].status = "superseded" =>
        \E j \in 1..Len(memories) : memories[j].supersedes_id = memories[i].id

----------------------------------------------------------------------------
(* Entity resolution, one call at a time *)

\* "Bo", "bo", "BO " normalize to "Bo"; "Human", "human " normalize to "Human",
\* an alias of the seeded user entity
ConvergeNames == { <<"B","o">>, <<"b","o">>, <<"B","O"," ">>,
                   <<"H","u","m","a","n">>, <<"h","u","m","a","n"," ">> }

NextConverge ==
  \/ \E name \in ConvergeNames : StartResolve(1, name)
  \/ ResolveStep(1)
  \/ Return(1)

SpecConverge == Init /\ [][NextConverge]_vars

\* C11: once resolveEntity(n) has returned id X, every name that normalizes to
\* the same string as n is found by the lookup and resolves to X, so no second
\* entity is created for it.
C11_ResolutionConverges ==
  \A p \in Procs :
    (pc[p] = "done" /\ loc[p].call = "resolve"
       /\ loc[p].result.action = "resolved") =>
      \A m \in ConvergeNames :
        normalizeEntityName(m) = normalizeEntityName(loc[p].entityName) =>
          getEntityByNameOrAlias(entities, m) = loc[p].result.id

----------------------------------------------------------------------------
(* Status of a fact *)

\* a step changes the status of the fact at position i from one value to another
statusChanges(i, from, to) ==
  memories[i].status = from /\ memories'[i].status = to

\* C12 as stated: the status of a fact changes only from active to superseded,
\* never from superseded back to active, and no row has status duplicate.
C12_OnlyActiveToSuperseded ==
  [][/\ \A i \in 1..Len(memories) :
          memories'[i].status # memories[i].status =>
            statusChanges(i, "active", "superseded")
     /\ \A i \in 1..Len(memories') : memories'[i].status # "duplicate"]_vars

\* C12 amended: the status of a fact changes from active to superseded, or from
\* superseded back to active by the rollback UPDATE of the supersedeMemory call
\* that superseded it and whose INSERT failed; no row has status duplicate.
C12_StatusTransitions ==
  [][LET \* a step is the rollback UPDATE of a supersedeMemory call on the fact at i
         isRollbackOf(i) ==
           \E p \in Procs :
             pc[p] = "rollback" /\ pc'[p] = "done" /\ loc[p].oldMemoryId = memories[i].id
     IN  /\ \A i \in 1..Len(memories) :
              memories'[i].status # memories[i].status =>
                \/ statusChanges(i, "active", "superseded")
                \/ statusChanges(i, "superseded", "active") /\ isRollbackOf(i)
         /\ \A i \in 1..Len(memories') : memories'[i].status # "duplicate"]_vars

\* C12 witness: a supersession whose INSERT failed has been rolled back; the
\* fact it had marked superseded is active again
C12_Witness ==
  \E p \in Procs :
    /\ pc[p] = "done" /\ loc[p].result.error = "insert new memory"
    /\ \E i \in 1..Len(memories) :
         /\ memories[i].id = loc[p].oldMemoryId
         /\ memories[i].status = "active"
         /\ memories[i].valid_to = NULL

----------------------------------------------------------------------------
(* Several active facts of one conflict key *)

MaxTieMemories == 3

\* processMemoryWithConflictResolution(memory) is called on a store of fewer
\* than max facts
StartIngestUpTo(p, memory, max) ==
  /\ pc[p] = "idle"
  /\ Len(memories) < max
  /\ goto(p, [pc |-> "lookup",
              loc |-> resolveEntities([IdleLoc EXCEPT !.call = "ingest",
                                                      !.memory = memory],
                                      "findConflicting")])
  /\ lastQuery' = NoQuery
  /\ UNCHANGED <<entities, memories, now>>

\* Two requests race (both find no conflict and both create), then a third
\* candidate of the same key arrives.
NextTie ==
  \/ \E p \in Procs, memory \in { candidate("IC", <<Alice>>, <<Bob>>, cf, 1, NULL) :
                                     cf \in {"Alice trusts Bob", "Alice distrusts Bob",
                                             "Alice fears Bob"} } :
       StartIngestUpTo(p, memory, MaxTieMemories)
  \/ \E p \in Procs : ResolveStep(p) \/ RetryLookup(p) \/ IngestStep(p) \/ Return(p)

SpecTie == Init /\ [][NextTie]_vars

\* positions of the active facts that share the conflict key of call p's candidate
sharing(p) ==
  {i \in 1..Len(memories) :
     /\ memories[i].status = "active"
     /\ conflictKey(memories[i]) =
          <<loc[p].memory.type, loc[p].memory.predicate,
            sortIds(loc[p].subjectIds), sortIds(loc[p].objectIds)>>}

\* C13: when ingest decides to supersede, the fact it picks is the conflicting
\* active fact with the latest created_at, the most recently inserted one among
\* equals, and its UPDATE changes that fact and no other.
C13_SupersedesLatestOnly ==
  [][LET \* the fact with the latest created_at, the most recently inserted one on a tie
         latestInserted(S) ==
           CHOOSE i \in S :
             \A j \in S : \/ memories[j].created_at < memories[i].created_at
                          \/ memories[j].created_at = memories[i].created_at /\ j <= i
     IN  \A p \in Procs :
           /\ (pc[p] = "select" /\ pc'[p] # "select"
                 /\ loc'[p].phase = "supersedeMemory") =>
                loc'[p].oldMemoryId = memories[latestInserted(sharing(p))].id
           /\ (pc[p] = "supersede_update" /\ pc'[p] = "supersede_insert") =>
                \A i \in 1..Len(memories) :
                  IF memories[i].id = loc[p].oldMemoryId
                    THEN memories'[i].status = "superseded"
                    ELSE memories'[i] = memories[i]]_vars

----------------------------------------------------------------------------
(* Relevance ranker *)

DEFAULT_RETRIEVAL_LIMIT == 50
\* scores are in units of 1/100000: components in thousandths times weights
\* in hundredths
DEFAULT_SIMILARITY_THRESHOLD == 70000
SCORE_ONE == 100000

\* s.includes(t)
includes(s, t) ==
  \E i \in 0..(Len(s) - Len(t)) : SubSeq(s, i + 1, i + Len(t)) = t

\* the text of an id held in column subjects / objects: one of the two fixed
\* ids, or a uuidv4() (text over 0-9, a-f and '-'; four characters stand for it)
idText(id) ==
  LET HexDigits == <<"0","1","2","3","4","5","6","7","8","9","a","b","c","d","e","f">>
  IN
  IF id = DEFAULT_USER_ID
    THEN <<"u","s","e","r","-","d","e","f","a","u","l","t">>
  ELSE IF id = DEFAULT_WORLD_ID
    THEN <<"w","o","r","l","d","-","d","e","f","a","u","l","t">>
  ELSE <<HexDigits[(id % 16) + 1], "-", "4", HexDigits[(id % 16) + 1]>>

\* queryEntities.filter(entity => memoryEntities.some(...)).length
entityMatches(memoryEntities, queryEntities) ==
  Cardinality({k \in 1..Len(queryEntities) :
    \E i \in 1..Len(memoryEntities) :
      \/ includes(toLowerCase(memoryEntities[i]), toLowerCase(queryEntities[k]))
      \/ includes(toLowerCase(queryEntities[k]), toLowerCase(memoryEntities[i]))})

\* entityMatchScore of calculateEnhancedRelevanceScore, in thousandths
entityMatchScore(memory, queryEntities) ==
  IF Len(queryEntities) > 0
    THEN (1000 * entityMatches(memory.subjects \o memory.objects, queryEntities))
           \div Len(queryEntities)
    ELSE 0

\* recencyScore of calculateEnhancedRelevanceScore, in thousandths
recencyScore(memory, currentChapter) ==
  IF currentChapter # UNDEFINED
    THEN LET chapterDifference == currentChapter - memory.valid_from
             \* Math.exp(-0.08 * d) in thousandths, for d = 0, 1, ...
             ExpDecay == <<1000, 923, 852, 787, 726, 670, 619, 571>>
         IN  ExpDecay[(IF chapterDifference > 0 THEN chapterDifference ELSE 0) + 1]
    ELSE 500

\* typeMatchScore of calculateEnhancedRelevanceScore, in thousandths
typeMatchScore(memory, preferredTypes) ==
  IF preferredTypes # {} /\ memory.type \in preferredTypes THEN 1000 ELSE 0

\* calculateEnhancedRelevanceScore with the default weights; semanticScore is
\* (cosineSimilarity + 1) / 2 of the two embeddings, in thousandths; confidence
\* is in tenths
calculateEnhancedRelevanceScore(memory, semanticScore, currentChapter, queryEntities, preferredTypes) ==
  LET weightedScore ==
        semanticScore * 40
        + recencyScore(memory, currentChapter) * 25
        + (memory.confidence * 100) * 10
        + entityMatchScore(memory, queryEntities) * 15
        + typeMatchScore(memory, preferredTypes) * 10
  IN  IF weightedScore < 0 THEN 0
      ELSE IF weightedScore > SCORE_ONE THEN SCORE_ONE
      ELSE weightedScore

----------------------------------------------------------------------------
(* Retrieval *)

\* Array.from(new Set(entities))
RECURSIVE dedupe(_)
dedupe(s) ==
  IF s = <<>> THEN <<>>
  ELSE LET init == dedupe(SubSeq(s, 1, Len(s) - 1))
           x == s[Len(s)]
       IN  IF \E i \in 1..Len(init) : init[i] = x THEN init ELSE Append(init, x)

\* extractEntitiesFromQuery: the words matching /^[A-Z][a-z]+$/ (the empty
\* words between adjacent spaces never match), then the terms the query includes
extractEntitiesFromQuery(query) ==
  LET isCapitalizedWord(word) ==
        /\ Len(word) >= 2
        /\ \E i \in 1..26 : Uppers[i] = word[1]
        /\ \A k \in 2..Len(word) : \E i \in 1..26 : Lowers[i] = word[k]
  IN
  LET words == split(query)
      isTerm(term) == includes(toLowerCase(query), term)
  IN  dedupe(SelectSeq(words, isCapitalizedWord)
               \o SelectSeq(<<STR_user, STR_player, STR_world, STR_environment>>, isTerm))

\* mutant: the comparator looks at valid_from only, oldest first
compareRecency_OldestFirst(a, b) ==
  a.valid_from - b.valid_from

\* the comparator of the sort without a query
compareRecency(a, b) ==
  LET recencyDiff == b.valid_from - a.valid_from
  IN  IF recencyDiff # 0 THEN recencyDiff ELSE b.confidence - a.confidence

\* memories.sort(compareRecency): the sort is stable
RECURSIVE sortByRecency(_)
sortByRecency(s) ==
  IF Len(s) <= 1 THEN s
  ELSE LET init == sortByRecency(SubSeq(s, 1, Len(s) - 1))
           x == s[Len(s)]
           n == Cardinality({i \in 1..Len(init) : compareRecency(init[i], x) <= 0})
       IN  SubSeq(init, 1, n) \o <<x>> \o SubSeq(init, n + 1, Len(init))

\* mutant: the scored facts are left in candidate order
sortByScore_Unsorted(s) ==
  s

\* .sort((a, b) => b.score - a.score): the sort is stable
RECURSIVE sortByScore(_)
sortByScore(s) ==
  IF Len(s) <= 1 THEN s
  ELSE LET init == sortByScore(SubSeq(s, 1, Len(s) - 1))
           x == s[Len(s)]
           n == Cardinality({i \in 1..Len(init) : x.score - init[i].score <= 0})
       IN  SubSeq(init, 1, n) \o <<x>> \o SubSeq(init, n + 1, Len(init))

NoText == <<>>

\* mutant: the count is taken after a truncation to one fact
totalCount_OfFirstPage(mems) ==
  IF Len(mems) > 1 THEN 1 ELSE Len(mems)

\* totalCount: memories.length, the candidates before threshold and limit
totalCount(mems) ==
  Len(mems)

\* what retrieveMemories(context) returns, given the rows its two getMemories
\* calls returned and semantic[id], the semantic score of the fact id
retrieveMemories(context, rows, semantic) ==
  LET \* mapRowToMemory: subjects and objects are JSON.parse of the columns, the ids
      mapRowToMemory(row) ==
        [row EXCEPT !.subjects = [i \in 1..Len(row.subjects) |-> idText(row.subjects[i])],
                    !.objects = [i \in 1..Len(row.objects) |-> idText(row.objects[i])]]
  IN
  LET \* s.slice(0, limit) for limit >= 0
      slice(s, limit) == SubSeq(s, 1, IF limit < Len(s) THEN limit ELSE Len(s))
  IN
  LET limit == IF context.limit = UNDEFINED THEN DEFAULT_RETRIEVAL_LIMIT
               ELSE context.limit
      threshold == IF context.threshold = UNDEFINED
                     THEN DEFAULT_SIMILARITY_THRESHOLD ELSE context.threshold
      filters == context.filters
      mems == [i \in 1..Len(rows) |-> mapRowToMemory(rows[i])]
      queryEntities == extractEntitiesFromQuery(context.query)
      currentChapter == IF filters.chapterNumber # UNDEFINED
                          THEN filters.chapterNumber ELSE filters.validAt
      scored == [i \in 1..Len(mems) |->
                   [memory |-> mems[i],
                    score |-> calculateEnhancedRelevanceScore(
                                mems[i], semantic[mems[i].id], currentChapter,
                                queryEntities, filters.type),
                    entityMatchScore |-> entityMatchScore(mems[i], queryEntities)]]
      atLeast(item) == item.score >= threshold
      scoredMemories == slice(sortByScore(SelectSeq(scored, atLeast)), limit)
      ids == {scoredMemories[i].memory.id : i \in 1..Len(scoredMemories)}
  IN  IF context.query = NoText
        THEN [ran |-> FALSE, call |-> "retrieve", context |-> context,
              candidates |-> mems,
              memories |-> slice(sortByRecency(mems), limit),
              totalCount |-> totalCount(mems),
              hasScores |-> FALSE]
        ELSE [ran |-> FALSE, call |-> "retrieve", context |-> context,
              candidates |-> mems,
              queryEntities |-> queryEntities,
              scored |-> scored,
              memories |-> [i \in 1..Len(scoredMemories) |-> scoredMemories[i].memory],
              totalCount |-> totalCount(mems),
              hasScores |-> TRUE,
              relevanceScores |->
                [id \in ids |->
                   scoredMemories[CHOOSE i \in 1..Len(scoredMemories) :
                     /\ scoredMemories[i].memory.id = id
                     /\ \A j \in (i + 1)..Len(scoredMemories) :
                          scoredMemories[j].memory.id # id].score]]

\* (cosineSimilarity + 1) / 2 of two placeholder embeddings, in thousandths
SemanticLevels == {0, 1000}

\* retrieveMemories(context) is called and returns
Retrieve(context) ==
  LET \* filters.characterName is resolved with getEntityByNameOrAlias: characterId
      \* is set when an entity is found, and the name is deleted either way
      filters ==
        IF "characterName" \in DOMAIN context.filters
             /\ context.filters.characterName # <<>>
          THEN LET entity == getEntityByNameOrAlias(entities,
                                                    context.filters.characterName)
               IN  IF entity # NULL
                     THEN [context.filters EXCEPT !.characterId = entity]
                     ELSE context.filters
          ELSE context.filters
  IN
  /\ \E base \in getMemories(memories, filters) :
     \E worldMemories \in
          (IF context.includeWorldMemories /\ context.filters.chapterNumber # UNDEFINED
             THEN getActiveMemoriesAtChapter(
                    memories, context.filters.chapterNumber,
                    [emptyFilter EXCEPT !.type = {"WM"}, !.status = "active"])
             ELSE {<<>>}) :
     \E semantic \in (IF context.query = NoText
                        THEN {[i \in 1..Len(memories) |-> 0]}
                        ELSE [1..Len(memories) -> SemanticLevels]) :
       lastQuery' = retrieveMemories(context, base \o worldMemories, semantic)
  /\ UNCHANGED <<entities, memories, now, pc, loc>>

World == <<"W","o","r","l","d">>

\* a context of retrieveMemories
RetrievalContext(query, chapterNumber, limit, threshold, includeWorldMemories) ==
  [query |-> query,
   filters |-> [emptyFilter EXCEPT !.chapterNumber = chapterNumber],
   limit |-> limit, threshold |-> threshold,
   includeWorldMemories |-> includeWorldMemories]

\* includeWorldMemories matters with a chapterNumber, threshold with a query
Contexts ==
  LET Queries == { NoText, <<"A","l">> }
  IN
  { RetrievalContext(q, cw[1], l, th, cw[2]) :
      q \in Queries \ {NoText},
      cw \in {<<UNDEFINED, TRUE>>, <<MaxChapter, TRUE>>, <<MaxChapter, FALSE>>},
      l \in {UNDEFINED, 1, 2},
      th \in {UNDEFINED, 0} }
  \cup
  { RetrievalContext(NoText, cw[1], l, UNDEFINED, cw[2]) :
      cw \in {<<UNDEFINED, TRUE>>, <<MaxChapter, TRUE>>, <<MaxChapter, FALSE>>},
      l \in {UNDEFINED, 1, 2} }

NextRetrieve ==
  \/ \E memory \in ({ candidate("IC", <<Alice>>, <<World>>, "Alice fears the world", 1, NULL),
                      [candidate("IC", <<Alice>>, <<World>>, "Alice loves the world", MaxChapter, NULL)
                         EXCEPT !.confidence = 5],
                      [candidate("WM", <<World>>, <<>>, "The world is old", 1, NULL)
                         EXCEPT !.confidence = 5],
                      candidate("C2U", <<Alice>>, <<>>, "Alice trusts User", MaxChapter, NULL) }) : StartIngest(1, memory)
  \/ ResolveStep(1)
  \/ IngestStep(1)
  \/ Return(1)
  \/ \E context \in Contexts :
       pc[1] = "idle" /\ lastQuery = NoQuery /\ Retrieve(context)

SpecRetrieve == Init /\ [][NextRetrieve]_vars

Retrieved == lastQuery # NoQuery /\ lastQuery.call = "retrieve"

\* C14: in retrieve with a query, the entity-overlap component of every scored
\* fact is the fraction of the query's entity names that substring-match the name
\* of one of the fact's subject or object entities; the query "Al" gives overlap
\* 1 to a fact whose only subject is the entity named Al.
C14_EntityOverlapByName ==
  LET \* the name of the entity id
      nameOfEntity(id) ==
        entities[CHOOSE i \in 1..Len(entities) : entities[i].id = id].name
  IN
  LET \* the fraction (in thousandths) of the query's names that substring-match the
      \* name of a subject or object entity of the stored fact
      overlapByName(row, queryEntities) ==
        LET ids == row.subjects \o row.objects
            names == [i \in 1..Len(ids) |-> nameOfEntity(ids[i])]
        IN  IF Len(queryEntities) > 0
              THEN (1000 * entityMatches(names, queryEntities)) \div Len(queryEntities)
              ELSE 0
  IN
  (Retrieved /\ lastQuery.hasScores) =>
    \A k \in 1..Len(lastQuery.scored) :
      LET item == lastQuery.scored[k]
          row == rowOf(item.memory.id)
      IN  /\ item.entityMatchScore = overlapByName(row, lastQuery.queryEntities)
          /\ (lastQuery.context.query = Alice /\ Len(row.subjects) = 1
                /\ row.objects = <<>> /\ nameOfEntity(row.subjects[1]) = Alice)
               => item.entityMatchScore = 1000

----------------------------------------------------------------------------
(* Statistics *)

\* allMemories.filter(m => m.status === status).length
countStatus(allMemories, status) ==
  Cardinality({i \in 1..Len(allMemories) : allMemories[i].status = status})

\* getMemoryStatistics() is called and returns
Statistics ==
  LET \* what getMemoryStatistics returns, given the rows getMemories({}) returned
      getMemoryStatistics(allMemories) ==
        [ran |-> FALSE, call |-> "statistics",
         totalMemories |-> Len(allMemories),
         activeMemories |-> countStatus(allMemories, "active"),
         supersededMemories |-> countStatus(allMemories, "superseded"),
         duplicateMemories |-> countStatus(allMemories, "duplicate")]
  IN
  /\ \E allMemories \in getMemories(memories, emptyFilter) :
       lastQuery' = getMemoryStatistics(allMemories)
  /\ UNCHANGED <<entities, memories, now, pc, loc>>

NextStatistics ==
  \/ \E memory \in WindowMemories : StartIngest(1, memory)
  \/ ResolveStep(1)
  \/ IngestStep(1)
  \/ Return(1)
  \/ pc[1] = "idle" /\ lastQuery = NoQuery /\ Statistics

SpecStatistics == Init /\ [][NextStatistics]_vars

\* C15: the statistics report totalMemories = the number of fact rows of every
\* status and supersededMemories = the number of rows with status superseded.
C15_StatisticsCountAllRows ==
  (lastQuery # NoQuery /\ lastQuery.call = "statistics") =>
    /\ lastQuery.totalMemories = Len(memories)
    /\ lastQuery.supersededMemories =
         Cardinality({i \in 1..Len(memories) : memories[i].status = "superseded"})

----------------------------------------------------------------------------
(* Extraction: validateSingleMemory, then ingest *)

\* validateSingleMemory throws (confidence is in tenths, MIN_CONFIDENCE_SCORE = 0.1)
validateSingleMemoryThrows(memory) ==
  \/ memory.type \notin {"C2U", "IC", "WM"}
  \/ memory.predicate = ""
  \/ Len(memory.subjects) = 0
  \/ memory.canonical_fact = ""
  \/ memory.raw_content = ""
  \/ memory.confidence < 1 \/ memory.confidence > 10
  \/ memory.type = "IC" /\ Len(memory.objects) = 0
  \/ \E i \in 1..Len(memory.subjects \o memory.objects) :
       Len(trim((memory.subjects \o memory.objects)[i])) = 0

\* the StructuredMemory validateSingleMemory returns
validateSingleMemory(memory, chapterNumber) ==
  [memory EXCEPT
     !.subjects = [i \in 1..Len(memory.subjects) |->
                     normalizeEntityName(memory.subjects[i])],
     !.objects = [i \in 1..Len(memory.objects) |->
                    normalizeEntityName(memory.objects[i])],
     !.valid_from = chapterNumber]

\* ingestChapter on one extracted memory: validation, then
\* processMemoryWithConflictResolution if it passed
StartExtracted(p, memory, chapterNumber) ==
  /\ pc[p] = "idle"
  /\ Len(memories) < MaxMemories
  /\ IF validateSingleMemoryThrows(memory)
       THEN goto(p, [pc |-> "done",
                     loc |-> failed([IdleLoc EXCEPT !.call = "ingest",
                                                    !.memory = memory],
                                    "validation")])
       ELSE goto(p, [pc |-> "lookup",
                     loc |-> resolveEntities(
                               [IdleLoc EXCEPT
                                  !.call = "ingest",
                                  !.memory = validateSingleMemory(memory, chapterNumber)],
                               "findConflicting")])
  /\ lastQuery' = NoQuery
  /\ UNCHANGED <<entities, memories, now>>

NextExtract ==
  \/ \E memory \in ({ candidate(type, <<Alice>>, oo, fact, NULL, NULL) :
                        type \in {"IC", "C2U", "WM"}, oo \in {<<>>, <<Bob>>, << <<" ">> >>},
                        fact \in {"Alice trusts Bob", "Alice trusts Bob again"} }), chapterNumber \in 1..MaxChapter :
       StartExtracted(1, memory, chapterNumber)
  \/ ResolveStep(1)
  \/ IngestStep(1)
  \/ Return(1)

SpecExtract == Init /\ [][NextExtract]_vars

\* C16: every persisted fact of type IC has objects and every persisted fact of
\* another type has none; an ingest that did not fail had a candidate of that
\* shape.
C16_ObjectArityFollowsType ==
  LET \* objects are present iff the type is IC
      arityFollowsType(type, objects) ==
        IF type = "IC" THEN Len(objects) > 0 ELSE Len(objects) = 0
  IN
  /\ \A i \in 1..Len(memories) :
       arityFollowsType(memories[i].type, memories[i].objects)
  /\ \A p \in Procs :
       Returned(p, {"created", "superseded", "duplicate"}) =>
         arityFollowsType(loc[p].memory.type, loc[p].memory.objects)

----------------------------------------------------------------------------
(* Supersession chain *)

MaxChainMemories == 3

\* getMemoryById resolves null
NoMemory == [id |-> NULL, supersedes_id |-> NULL]

\* SELECT * FROM memories WHERE id = ?
getMemoryById(mems, memoryId) ==
  IF \E i \in 1..Len(mems) : mems[i].id = memoryId
    THEN mems[CHOOSE i \in 1..Len(mems) : mems[i].id = memoryId]
    ELSE NoMemory

\* the while loop of getSupersessionChain: the facts pushed, in push order
RECURSIVE walkBackwards(_, _)
walkBackwards(mems, currentMemory) ==
  IF currentMemory.supersedes_id # NULL
    THEN LET supersededMemory == getMemoryById(mems, currentMemory.supersedes_id)
         IN  IF supersededMemory # NoMemory
               THEN <<supersededMemory>> \o walkBackwards(mems, supersededMemory)
               ELSE <<>>
    ELSE <<>>

\* mutant: the ancestors are left in push order
reverse_PushOrder(s) ==
  s

\* supersedes.reverse()
reverse(s) ==
  [i \in 1..Len(s) |-> s[Len(s) + 1 - i]]

\* mutant: every fact that supersedes some fact
supersedingRows_OfAnyFact(mems, memoryId) ==
  {i \in 1..Len(mems) : mems[i].supersedes_id # NULL}

\* WHERE supersedes_id = ?
supersedingRows(mems, memoryId) ==
  {i \in 1..Len(mems) : mems[i].supersedes_id = memoryId}

\* what getSupersessionChain(memoryId) may resolve: the walk, reversed, and the
\* rows of SELECT ... WHERE supersedes_id = ? ORDER BY created_at ASC in every
\* order the ORDER BY allows
getSupersessionChain(mems, memoryId) ==
  LET hits == supersedingRows(mems, memoryId)
      n == Cardinality(hits)
      orders == {o \in [1..n -> hits] :
                   /\ \A i, j \in 1..n : i # j => o[i] # o[j]
                   /\ \A i, j \in 1..n :
                        i < j => mems[o[i]].created_at <= mems[o[j]].created_at}
  IN  { [ran |-> FALSE, call |-> "chain", memoryId |-> memoryId,
         supersedes |-> reverse(walkBackwards(mems, getMemoryById(mems, memoryId))),
         supersededBy |-> [i \in 1..n |-> mems[o[i]]]] : o \in orders }

\* getSupersessionChain(memoryId) is called and returns
Chain(memoryId) ==
  /\ \E result \in getSupersessionChain(memories, memoryId) : lastQuery' = result
  /\ UNCHANGED <<entities, memories, now, pc, loc>>

\* Ingests of two requests interleave; chains are read while no ingest runs.
NextChain ==
  \/ \E p \in Procs, memory \in { candidate("WM", <<World>>, <<>>, cf, 1, NULL) :
                                     cf \in {"The world is old", "The world is new",
                                             "The world is flat"} } :
       StartIngestUpTo(p, memory, MaxChainMemories)
  \/ \E p \in Procs : Lookup(p) \/ IngestStep(p) \/ Return(p)
  \/ \E memoryId \in 1..(MaxChainMemories + 1) :
       /\ \A p \in Procs : pc[p] = "idle"
       /\ lastQuery = NoQuery
       /\ Chain(memoryId)

SpecChain == Init /\ [][NextChain]_vars

ChainRead == lastQuery # NoQuery /\ lastQuery.call = "chain"

\* C17: the older facts of a chain are the facts met by following supersedes_id
\* backward from f, the oldest (the one that supersedes nothing) first and the
\* fact f supersedes last; the newer facts are exactly the facts whose
\* supersedes_id is f, each once, in order of created_at.
C17_ChainOlderAndNewer ==
  LET isStored(row) == \E i \in 1..Len(memories) : memories[i] = row
  IN
  (ChainRead /\ getMemoryById(memories, lastQuery.memoryId) # NoMemory) =>
    LET f == getMemoryById(memories, lastQuery.memoryId)
        older == lastQuery.supersedes
        newer == lastQuery.supersededBy
    IN  /\ (older = <<>>) <=> (f.supersedes_id = NULL)
        /\ older # <<>> =>
             /\ older[Len(older)].id = f.supersedes_id
             /\ older[1].supersedes_id = NULL
             /\ \A k \in 1..(Len(older) - 1) : older[k + 1].supersedes_id = older[k].id
        /\ \A k \in 1..Len(older) : isStored(older[k])
        /\ \A i \in 1..Len(memories) :
             (memories[i].supersedes_id = f.id)
               <=> (\E k \in 1..Len(newer) : newer[k] = memories[i])
        /\ \A k \in 1..Len(newer) : newer[k].supersedes_id = f.id
        /\ \A j, k \in 1..Len(newer) :
             j < k => newer[j] # newer[k] /\ newer[j].created_at <= newer[k].created_at

\* C17 witness: the chain of a fact with two ancestors has been read
C17_Witness ==
  /\ ChainRead
  /\ Len(lastQuery.supersedes) = 2
  /\ lastQuery.supersedes[1].supersedes_id = NULL
  /\ lastQuery.supersedes[2].supersedes_id = lastQuery.supersedes[1].id

\* C18: reading the chain of a fact id that no row has returns no older and no
\* newer facts, raises no error, and changes neither table.
C18_ChainOfMissingFact ==
  [][\A memoryId \in 1..(MaxChainMemories + 1) :
       (getMemoryById(memories, memoryId) = NoMemory /\ lastQuery = NoQuery
          /\ lastQuery' # NoQuery /\ lastQuery'.call = "chain"
          /\ lastQuery'.memoryId = memoryId) =>
         /\ lastQuery'.supersedes = <<>>
         /\ lastQuery'.supersededBy = <<>>
         /\ memories' = memories
         /\ entities' = entities]_vars

\* C18 witness: the chain of a missing id has been read on a store that holds a
\* superseded fact and its successor
C18_Witness ==
  /\ ChainRead
  /\ getMemoryById(memories, lastQuery.memoryId) = NoMemory
  /\ \E i \in 1..Len(memories) : memories[i].supersedes_id # NULL

----------------------------------------------------------------------------
(* Properties of retrieval *)

\* the limit in force
limitOf(context) ==
  IF context.limit = UNDEFINED THEN DEFAULT_RETRIEVAL_LIMIT ELSE context.limit

\* C19: with a query text, every returned fact was scored at least threshold,
\* the returned facts are in order of non-increasing score, there are at most
\* limit of them, and the score map has an entry for exactly the returned facts,
\* the score the fact was given.
C19_ScoredRetrieval ==
  LET \* the threshold in force
      thresholdOf(context) ==
        IF context.threshold = UNDEFINED THEN DEFAULT_SIMILARITY_THRESHOLD
        ELSE context.threshold
  IN
  (Retrieved /\ lastQuery.context.query # NoText) =>
    LET returned == lastQuery.memories
    IN  /\ lastQuery.hasScores
        /\ Len(returned) <= limitOf(lastQuery.context)
        /\ DOMAIN lastQuery.relevanceScores =
             {returned[k].id : k \in 1..Len(returned)}
        /\ \A k \in 1..Len(returned) :
             /\ lastQuery.relevanceScores[returned[k].id]
                  >= thresholdOf(lastQuery.context)
             /\ \E i \in 1..Len(lastQuery.scored) :
                  /\ lastQuery.scored[i].memory = returned[k]
                  /\ lastQuery.scored[i].score =
                       lastQuery.relevanceScores[returned[k].id]
        /\ \A k \in 1..(Len(returned) - 1) :
             lastQuery.relevanceScores[returned[k].id]
               >= lastQuery.relevanceScores[returned[k + 1].id]

\* C19 witness: a query returned two facts of different scores, the higher
\* first, and left out a candidate
C19_Witness ==
  /\ Retrieved /\ lastQuery.context.query # NoText
  /\ Len(lastQuery.memories) = 2
  /\ lastQuery.totalCount > 2
  /\ lastQuery.relevanceScores[lastQuery.memories[1].id]
       > lastQuery.relevanceScores[lastQuery.memories[2].id]

\* C20: without a query text, the returned facts are the first limit (50 when
\* none is given) of the candidates put in order of valid_from descending and,
\* among equal valid_from, confidence descending; there is no score map.
C20_UnscoredRetrieval ==
  (Retrieved /\ lastQuery.context.query = NoText) =>
    LET returned == lastQuery.memories
        candidates == lastQuery.candidates
        n == Len(candidates)
        limit == limitOf(lastQuery.context)
        count(s, x) == Cardinality({i \in 1..Len(s) : s[i] = x})
        before(a, b) == \/ a.valid_from > b.valid_from
                        \/ a.valid_from = b.valid_from /\ a.confidence > b.confidence
    IN  /\ "relevanceScores" \notin DOMAIN lastQuery
        /\ Len(returned) = (IF limit < n THEN limit ELSE n)
        /\ \A k \in 1..(Len(returned) - 1) : ~before(returned[k + 1], returned[k])
        /\ \A k \in 1..Len(returned) :
             count(returned, returned[k]) <= count(candidates, returned[k])
        /\ \A i \in 1..n :
             count(returned, candidates[i]) < count(candidates, candidates[i]) =>
               \A k \in 1..Len(returned) : ~before(candidates[i], returned[k])

\* C20 witness: of two candidates of one valid_from, a retrieve without query
\* and with limit 1 returned the one of higher confidence
C20_Witness ==
  /\ Retrieved /\ lastQuery.context.query = NoText
  /\ lastQuery.context.limit = 1
  /\ Len(lastQuery.candidates) = 2
  /\ Len(lastQuery.memories) = 1
  /\ \E i \in 1..2 :
       /\ lastQuery.candidates[i].valid_from = lastQuery.memories[1].valid_from
       /\ lastQuery.candidates[i].confidence < lastQuery.memories[1].confidence

----------------------------------------------------------------------------
(* Pages of a retrieval *)

\* facts about the seeded entities: two world facts of one conflict key, in
\* the first and the last chapter, and one fact of another key
PageMemories ==
  LET User == <<"U","s","e","r">>
  IN
  { [candidate("WM", <<World>>, <<>>, "The world is old", 1, NULL)
       EXCEPT !.confidence = 5],
    candidate("WM", <<World>>, <<>>, "The world is new", MaxChapter, NULL),
    candidate("IC", <<User>>, <<World>>, "User fears the world", 1, NULL) }

\* Calls run one at a time, retrievals among them.
NextPage ==
  \/ \E memory \in PageMemories : StartIngest(1, memory)
  \/ Lookup(1)
  \/ IngestStep(1)
  \/ Return(1)
  \/ \E context \in Contexts :
       pc[1] = "idle" /\ lastQuery = NoQuery /\ Retrieve(context)

SpecPage == Init /\ [][NextPage]_vars

\* C21: totalCount is the number of candidates before truncation: for the same
\* store and filters it is the same under every limit, and it is never smaller
\* than the number of facts returned.
C21_TotalCountBeforeTruncation ==
  LET \* the totalCount of every result retrieveMemories can give in this state for
      \* the context with its limit replaced by any of Limits
      totalCountsOverLimits(ctx) ==
        { retrieveMemories([ctx EXCEPT !.limit = l], base \o worldMemories,
                           [i \in 1..Len(memories) |-> 0]).totalCount :
            l \in ({UNDEFINED, 1, 2}),
            base \in getMemories(memories, ctx.filters),
            worldMemories \in
              (IF ctx.includeWorldMemories /\ ctx.filters.chapterNumber # UNDEFINED
                 THEN getActiveMemoriesAtChapter(
                        memories, ctx.filters.chapterNumber,
                        [emptyFilter EXCEPT !.type = {"WM"}, !.status = "active"])
                 ELSE {<<>>}) }
  IN
  Retrieved =>
    /\ totalCountsOverLimits(lastQuery.context) = {lastQuery.totalCount}
    /\ lastQuery.totalCount = Len(lastQuery.candidates)
    /\ lastQuery.totalCount >= Len(lastQuery.memories)

\* a retrieval that was truncated: two candidates, one returned
C21_Witness ==
  /\ Retrieved
  /\ lastQuery.context.limit = 1
  /\ lastQuery.totalCount = 2
  /\ Len(lastQuery.memories) = 1

----------------------------------------------------------------------------
(* Retrieval when a statement fails *)

\* the catch block of retrieveMemories: the promise resolves with an empty
\* pack. failedCall (which statement failed) is not part of the pack; rejected
\* says whether the promise of retrieveMemories rejected.
retrieveMemoriesCatch(context, failedCall) ==
  [ran |-> FALSE, call |-> "retrieve", context |-> context,
   candidates |-> <<>>,
   memories |-> <<>>,
   totalCount |-> 0,
   hasScores |-> FALSE,
   failedCall |-> failedCall,
   rejected |-> FALSE]

\* retrieveMemories(context) is called and db.all of getMemories, or of
\* getActiveMemoriesAtChapter after it, calls back with an error
RetrieveFails(context) ==
  /\ \E failedCall \in
          {"getMemories"} \cup
          (IF context.includeWorldMemories /\ context.filters.chapterNumber # UNDEFINED
             THEN {"getActiveMemoriesAtChapter"} ELSE {}) :
       lastQuery' = retrieveMemoriesCatch(context, failedCall)
  /\ UNCHANGED <<entities, memories, now, pc, loc>>

\* Calls run one at a time; the statements of a retrieval may fail.
NextRetrieveFaults ==
  \/ \E memory \in PageMemories : StartIngest(1, memory)
  \/ Lookup(1)
  \/ IngestStep(1)
  \/ Return(1)
  \/ \E context \in Contexts :
       /\ pc[1] = "idle" /\ lastQuery = NoQuery
       /\ Retrieve(context) \/ RetrieveFails(context)

SpecRetrieveFaults == Init /\ [][NextRetrieveFaults]_vars

\* C22: a storage failure during a retrieval reaches the caller as an error
\* (the promise rejects); it is not a successful result with an empty list and
\* totalCount 0.
C22_StorageFailureSurfaced ==
  LET \* a retrieval in which a statement failed
      RetrieveFailed ==
        lastQuery # NoQuery /\ lastQuery.call = "retrieve" /\ "failedCall" \in DOMAIN lastQuery
  IN
  RetrieveFailed =>
    /\ lastQuery.rejected
    /\ ~(lastQuery.memories = <<>> /\ lastQuery.totalCount = 0)

----------------------------------------------------------------------------
(* The rows of ingested facts *)

\* a row whose embedding column is set (the INSERTs leave it NULL)
hasEmbedding(row) == "embedding" \in DOMAIN row

\* ingestChapter after processMemoryWithConflictResolution returned 'created':
\* the embedding is attached to the new row. (When the UPDATE fails the error is
\* recorded and the memory is done: Return without this step.)
UpdateMemoryEmbedding(p) ==
  LET \* UPDATE memories SET embedding = ?, updated_at = ? WHERE id = ?
      updateMemoryEmbedding(mems, memoryId) ==
        [i \in 1..Len(mems) |->
           IF mems[i].id = memoryId
             THEN [embedding |-> TRUE] @@ mems[i]
             ELSE mems[i]]
  IN
  /\ pc[p] = "done"
  /\ loc[p].call = "ingest"
  /\ loc[p].result.action = "created"
  /\ ~hasEmbedding(getMemoryById(memories, loc[p].result.id))
  /\ memories' = updateMemoryEmbedding(memories, loc[p].result.id)
  /\ lastQuery' = NoQuery
  /\ UNCHANGED <<entities, now, pc, loc>>

\* updateMemoryEmbedding throws (its UPDATE fails): the row stays as inserted and
\* the call of the loop body ends in its catch
UpdateMemoryEmbeddingFails(p) ==
  /\ pc[p] = "done"
  /\ loc[p].call = "ingest"
  /\ loc[p].result.action = "created"
  /\ ~hasEmbedding(getMemoryById(memories, loc[p].result.id))
  /\ loc' = [loc EXCEPT ![p] = failed(loc[p], "updateMemoryEmbedding")]
  /\ lastQuery' = NoQuery
  /\ UNCHANGED <<entities, memories, now, pc>>

\* Calls run one at a time, statements may fail, embeddings are attached.
NextAppend ==
  \/ \E memory \in ({ candidate("IC", <<Alice>>, <<World>>, cf, vf, NULL) :
                        cf \in {"Alice fears the world", "Alice loves the world"},
                        vf \in {1, MaxChapter} }) : StartIngest(1, memory)
  \/ ResolveStep(1)
  \/ IngestStep(1)
  \/ Fault(1)
  \/ UpdateMemoryEmbedding(1)
  \/ Return(1)

SpecAppend == Init /\ [][NextAppend]_vars

\* C23: the fact history is append-only: no step of an ingest removes a row or
\* changes type, predicate, subjects, objects, canonical_fact, raw_content,
\* confidence or valid_from (nor id, supersedes_id, created_at) of an existing
\* row; status and valid_to change only in the UPDATEs of a supersession of
\* that row, and the embedding only when it is attached after creation.
C23_AppendOnly ==
  [][LET \* the columns no statement of the ingest path writes after the INSERT
         FrozenColumns ==
           {"id", "type", "predicate", "subjects", "objects", "canonical_fact",
            "raw_content", "confidence", "valid_from", "supersedes_id", "created_at"}
         \* a step is an UPDATE of a supersedeMemory call on the fact at i
         isSupersessionOf(i) ==
           \E p \in Procs :
             /\ pc[p] \in {"supersede_update", "rollback"}
             /\ loc[p].oldMemoryId = memories[i].id
         \* a step attaches the embedding to the fact at i, which the call created
         isEmbeddingOf(i) ==
           \E p \in Procs :
             /\ pc[p] = "done" /\ loc[p].result.action = "created"
             /\ loc[p].result.id = memories[i].id
             /\ ~hasEmbedding(memories[i])
     IN  /\ Len(memories') >= Len(memories)
         /\ \A i \in 1..Len(memories) :
              /\ \A c \in FrozenColumns : memories'[i][c] = memories[i][c]
              /\ (memories'[i].status # memories[i].status
                    \/ memories'[i].valid_to # memories[i].valid_to)
                   => isSupersessionOf(i)
              /\ hasEmbedding(memories'[i]) # hasEmbedding(memories[i])
                   => isEmbeddingOf(i)]_vars

\* a fact that got its embedding and was then superseded by a second row
C23_Witness ==
  /\ Len(memories) = 2
  /\ hasEmbedding(memories[1])
  /\ memories[1].status = "superseded" /\ memories[1].valid_to # NULL
  /\ memories[2].supersedes_id = memories[1].id

----------------------------------------------------------------------------
(* The ranker on its own: calculateEnhancedRelevanceScore(memory, options) *)

\* { ...defaults, ...options.weights }
weightsOf(options) ==
  LET \* the default weights, in hundredths
      DefaultWeights ==
        [semantic |-> 40, recency |-> 25, confidence |-> 10, entityMatch |-> 15,
         typeMatch |-> 10]
  IN
  [k \in ({"semantic", "recency", "confidence", "entityMatch", "typeMatch"}) |->
     IF "weights" \in DOMAIN options /\ k \in DOMAIN options.weights
       THEN options.weights[k] ELSE DefaultWeights[k]]

\* mutant: the weighted sum is returned as it is
clamp_Unclamped(weightedScore) ==
  weightedScore

\* Math.max(0, Math.min(1, weightedScore))
clamp(weightedScore) ==
  IF weightedScore < 0 THEN 0
  ELSE IF weightedScore > SCORE_ONE THEN SCORE_ONE
  ELSE weightedScore

\* a fact and a query bundle are given
InitRanker ==
  LET RankerOptions ==
        LET \* custom weights: one overridden far above 1, all of them 1, two negative
            CustomWeights ==
              { [recency |-> 400],
                [semantic |-> 100, recency |-> 100, confidence |-> 100, entityMatch |-> 100,
                 typeMatch |-> 100],
                [recency |-> -25, confidence |-> -10] }
        IN
        LET plain == { [queryEmbedding |-> qe, similarity |-> sim, currentChapter |-> ch,
                        queryEntities |-> qn, preferredTypes |-> pt] :
                         qe \in BOOLEAN, sim \in {0, 1000},
                         ch \in {UNDEFINED, 1, MaxChapter},
                         qn \in {<<>>, <<Alice>>, <<Bob>>},
                         pt \in {{}, {"IC"}} }
        IN  plain \cup { [weights |-> w] @@ o : o \in plain, w \in CustomWeights }
  IN
  LET \* facts to score: with and without embedding, of the least, a middle and the
      \* greatest confidence
      RankerMemories ==
        { [type |-> t, subjects |-> <<Alice>>, objects |-> <<>>, confidence |-> c,
           valid_from |-> vf, embedding |-> e] :
            t \in {"IC", "WM"}, c \in {1, 5, 10}, vf \in {1, MaxChapter},
            e \in BOOLEAN }
  IN
  /\ entities = seedDefaultData
  /\ memories = <<>>
  /\ now = 0
  /\ pc = [p \in Procs |-> "idle"]
  /\ loc = [p \in Procs |-> IdleLoc]
  /\ lastQuery \in { [ran |-> FALSE, call |-> "score", scored |-> FALSE,
                       memory |-> m, options |-> o] :
                        m \in RankerMemories, o \in RankerOptions }

\* calculateEnhancedRelevanceScore is applied
Score ==
  LET \* calculateEnhancedRelevanceScore(memory, options). memory.embedding and
      \* options.queryEmbedding say whether the embedding is there;
      \* options.similarity is (cosineSimilarity + 1) / 2 of the two, in thousandths;
      \* confidence is in tenths, weights in hundredths
      scoreWithOptions(memory, options) ==
        LET weights == weightsOf(options)
            semanticScore == IF options.queryEmbedding /\ memory.embedding
                               THEN options.similarity ELSE 0
        IN  clamp(semanticScore * weights.semantic
                  + recencyScore(memory, options.currentChapter) * weights.recency
                  + (memory.confidence * 100) * weights.confidence
                  + entityMatchScore(memory, options.queryEntities) * weights.entityMatch
                  + typeMatchScore(memory, options.preferredTypes) * weights.typeMatch)
  IN
  /\ lastQuery.call = "score" /\ ~lastQuery.scored
  /\ lastQuery' = [scored |-> TRUE,
                   score |-> scoreWithOptions(lastQuery.memory, lastQuery.options)]
                  @@ lastQuery
  /\ UNCHANGED <<entities, memories, now, pc, loc>>

NextRanker == Score

SpecRanker == InitRanker /\ [][NextRanker]_vars

Scored == lastQuery.call = "score" /\ lastQuery.scored

\* the fact has no embedding and matches no mentioned entity and no preferred
\* type
unmatched(memory, options) ==
  /\ ~memory.embedding
  /\ entityMatchScore(memory, options.queryEntities) = 0
  /\ typeMatchScore(memory, options.preferredTypes) = 0

\* recencyWeight * recency + confidenceWeight * confidence, recency being 0.5
\* without a reference chapter
recencyAndConfidence(memory, options) ==
  weightsOf(options).recency
    * (IF options.currentChapter = UNDEFINED THEN 500
       ELSE recencyScore(memory, options.currentChapter))
  + weightsOf(options).confidence * (memory.confidence * 100)

\* C24 as stated: the score lies in [0,1], with default or custom weights; for
\* a fact with no embedding, no entity match and no type match the score is the
\* non-negative value recencyWeight * recency + confidenceWeight * confidence.
C24_ScoreIsRecencyAndConfidence ==
  Scored =>
    /\ lastQuery.score >= 0 /\ lastQuery.score <= SCORE_ONE
    /\ unmatched(lastQuery.memory, lastQuery.options) =>
         /\ recencyAndConfidence(lastQuery.memory, lastQuery.options) >= 0
         /\ lastQuery.score =
              recencyAndConfidence(lastQuery.memory, lastQuery.options)

\* C24 amended: the score lies in [0,1], with default or custom weights; for a
\* fact with no embedding, no entity match and no type match the score is
\* recencyWeight * recency + confidenceWeight * confidence brought into [0,1]
\* (0 if the sum is below 0, 1 if it is above 1), and with the default weights
\* it is that sum itself.
C24_RankerBounded ==
  Scored =>
    LET v == recencyAndConfidence(lastQuery.memory, lastQuery.options)
    IN  /\ lastQuery.score >= 0 /\ lastQuery.score <= SCORE_ONE
        /\ unmatched(lastQuery.memory, lastQuery.options) =>
             /\ lastQuery.score = IF v < 0 THEN 0
                                  ELSE IF v > SCORE_ONE THEN SCORE_ONE ELSE v
             /\ "weights" \notin DOMAIN lastQuery.options =>
                  lastQuery.score = v

\* a fact with no embedding and no match was scored under custom weights whose
\* sum for recency and confidence is above 1
C24_Witness ==
  /\ Scored
  /\ unmatched(lastQuery.memory, lastQuery.options)
  /\ "weights" \in DOMAIN lastQuery.options
  /\ recencyAndConfidence(lastQuery.memory, lastQuery.options) > SCORE_ONE
  /\ lastQuery.score = SCORE_ONE

----------------------------------------------------------------------------
(* ingestChapters: request 2 runs the batch, its calls of
   processMemoryWithConflictResolution run as call 1 *)

MaxChapters == 2

\* the frame of ingestChapters: aggregateResult and the position in the loops
chaptersFrame(chapters, stats) ==
  [chapters |-> chapters, stats |-> stats, index |-> 1,
   pending |-> <<>>, extractionFailed |-> FALSE,
   chaptersProcessed |-> 0, memoriesCreated |-> 0, memoriesSuperseded |-> 0,
   memoriesDuplicated |-> 0, conflictsResolved |-> 0, errors |-> 0,
   rejected |-> FALSE]
  @@ [IdleLoc EXCEPT !.call = "ingestChapters"]

\* ingestChapters(chapters, verbose, generateReport) is called; stats is
\* verbose || generateReport. The initial getMemoryStatistics is outside every
\* try: when it throws, ingestChapters rejects.
StartChapters(chapters, stats) ==
  /\ \A p \in Procs : pc[p] = "idle"
  /\ \E statsThrow \in (IF stats THEN BOOLEAN ELSE {FALSE}) :
       IF statsThrow
         THEN goto(2, [pc |-> "done",
                       loc |-> [chaptersFrame(chapters, stats)
                                  EXCEPT !.rejected = TRUE]])
         ELSE goto(2, [pc |-> "chapters_loop",
                       loc |-> chaptersFrame(chapters, stats)])
  /\ lastQuery' = NoQuery
  /\ UNCHANGED <<entities, memories, now>>

\* the head of the loop body for one chapter: the statistics before the
\* chapter (their error is caught by the loop's catch, which goes on to the
\* next chapter), then extractMemories in ingestChapterWithReporting, which
\* throws (caught there: chaptersProcessed 0 and one error) or returns
BeginChapter ==
  LET \* what the extraction oracle may return for a chapter: nothing, or one world
      \* fact of that chapter
      extractMemories(chapterNumber) ==
        { <<>> } \cup
        { <<candidate("WM", <<World>>, <<>>, cf, chapterNumber, NULL)>> :
            cf \in {"The world is old", "The world is new"} }
  IN
  /\ pc[2] = "chapters_loop"
  /\ loc[2].index <= Len(loc[2].chapters)
  /\ LET l == loc[2]
     IN  \E statsThrow \in (IF l.stats THEN BOOLEAN ELSE {FALSE}) :
           IF statsThrow
             THEN goto(2, [pc |-> "chapters_loop",
                           loc |-> [l EXCEPT !.index = @ + 1,
                                             !.errors = @ + 1]])
             ELSE \/ goto(2, [pc |-> "chapter_end",
                              loc |-> [l EXCEPT !.extractionFailed = TRUE,
                                                !.errors = @ + 1]])
                  \/ \E memoriesExtracted \in extractMemories(l.chapters[l.index]) :
                       goto(2, [pc |-> IF memoriesExtracted = <<>>
                                         THEN "chapter_end" ELSE "chapter_memory",
                                loc |-> [l EXCEPT !.pending = memoriesExtracted]])
  /\ lastQuery' = NoQuery
  /\ UNCHANGED <<entities, memories, now>>

\* processMemoryWithConflictResolution(structuredMemory) is called for the
\* next extracted memory
StartChapterMemory ==
  /\ pc[2] = "chapter_memory"
  /\ loc[2].pending # <<>>
  /\ StartIngest(1, Head(loc[2].pending))

\* mutant: the catch of the loop body does not record the error
countAction_ErrorDropped(l, action) ==
  [l EXCEPT
     !.pending = Tail(@),
     !.memoriesCreated = IF action = "created" THEN @ + 1 ELSE @,
     !.memoriesSuperseded = IF action = "superseded" THEN @ + 1 ELSE @,
     !.conflictsResolved = IF action = "superseded" THEN @ + 1 ELSE @,
     !.memoriesDuplicated = IF action = "duplicate" THEN @ + 1 ELSE @]

\* the end of the loop body for one memory: the switch on result.action, or
\* the catch of the body (errors.push) when a statement has thrown
countAction(l, action) ==
  [l EXCEPT
     !.pending = Tail(@),
     !.memoriesCreated = IF action = "created" THEN @ + 1 ELSE @,
     !.memoriesSuperseded = IF action = "superseded" THEN @ + 1 ELSE @,
     !.conflictsResolved = IF action = "superseded" THEN @ + 1 ELSE @,
     !.memoriesDuplicated = IF action = "duplicate" THEN @ + 1 ELSE @,
     !.errors = IF action = "error" THEN @ + 1 ELSE @]

\* the call has returned or thrown and, after 'created', the embedding was
\* attached or its UPDATE has thrown: the counters of the chapter are updated
ChapterMemoryDone ==
  /\ pc[2] = "chapter_memory"
  /\ pc[1] = "done"
  /\ loc[1].result.action = "created" =>
       hasEmbedding(getMemoryById(memories, loc[1].result.id))
  /\ LET l == countAction(loc[2], loc[1].result.action)
     IN  /\ pc' = [pc EXCEPT ![1] = "idle",
                             ![2] = IF l.pending = <<>> THEN "chapter_end"
                                    ELSE "chapter_memory"]
         /\ loc' = [loc EXCEPT ![1] = IdleLoc, ![2] = l]
  /\ lastQuery' = NoQuery
  /\ UNCHANGED <<entities, memories, now>>

\* ingestChapterWithReporting returns: chaptersProcessed 1, or 0 from its catch
\* block; ingestChapters adds it to aggregateResult. (The statistics after the
\* chapter come later and leave chaptersProcessed alone.)
EndChapter ==
  /\ pc[2] = "chapter_end"
  /\ goto(2, [pc |-> "chapters_loop",
              loc |-> [loc[2] EXCEPT
                         !.chaptersProcessed =
                            @ + (IF loc[2].extractionFailed THEN 0 ELSE 1),
                         !.extractionFailed = FALSE,
                         !.index = @ + 1]])
  /\ lastQuery' = NoQuery
  /\ UNCHANGED <<entities, memories, now>>

\* the loop is over: ingestChapters returns aggregateResult
EndChapters ==
  /\ pc[2] = "chapters_loop"
  /\ loc[2].index > Len(loc[2].chapters)
  /\ pc' = [pc EXCEPT ![2] = "done"]
  /\ lastQuery' = NoQuery
  /\ UNCHANGED <<entities, memories, now, loc>>

NextChapters ==
  \/ \E chapters \in { [i \in 1..n |-> i] : n \in 0..MaxChapters }, stats \in BOOLEAN :
       StartChapters(chapters, stats)
  \/ BeginChapter
  \/ StartChapterMemory
  \/ Lookup(1)
  \/ IngestStep(1)
  \/ UpdateMemoryEmbedding(1)
  \/ ChapterMemoryDone
  \/ EndChapter
  \/ EndChapters
  \/ Return(2)

SpecChapters == Init /\ [][NextChapters]_vars

\* C25: the chaptersProcessed of the result of ingestChapters equals the number
\* of chapters supplied.
C25_EveryChapterProcessed ==
  (pc[2] = "done" /\ loc[2].call = "ingestChapters" /\ ~loc[2].rejected) =>
    loc[2].chaptersProcessed = Len(loc[2].chapters)

----------------------------------------------------------------------------
(* GET /memories: validateRetrievalRequest, the handler, the error handler *)

HTTP_OK == 200
HTTP_BAD_REQUEST == 400
HTTP_INTERNAL_SERVER_ERROR == 500

Digits == <<"0","1","2","3","4","5","6","7","8","9">>

\* the length of the longest prefix of digits
RECURSIVE leadingDigits(_)
leadingDigits(s) ==
  LET isDigit(c) == \E i \in 1..10 : Digits[i] = c
  IN
  IF s # <<>> /\ isDigit(Head(s)) THEN 1 + leadingDigits(Tail(s)) ELSE 0

\* the number a text of digits denotes
RECURSIVE digitsValue(_)
digitsValue(s) ==
  LET digitValue(c) == (CHOOSE i \in 1..10 : Digits[i] = c) - 1
  IN
  IF s = <<>> THEN 0
  ELSE 10 * digitsValue(SubSeq(s, 1, Len(s) - 1)) + digitValue(s[Len(s)])

\* a parsed number: nan, or a value
NaN == [nan |-> TRUE, value |-> 0]

number(v) == [nan |-> FALSE, value |-> v]

\* parseInt(text): an optional sign and the longest prefix of digits
parseInt(text) ==
  LET t == trimStart(text)
      negative == t # <<>> /\ Head(t) = "-"
      body == IF negative THEN Tail(t) ELSE t
      k == leadingDigits(body)
  IN  IF k = 0 THEN NaN
      ELSE number((IF negative THEN -1 ELSE 1) * digitsValue(SubSeq(body, 1, k)))

\* parseFloat(text), in thousandths: an optional sign, digits, and an optional
\* point with up to three digits after it
parseFloat(text) ==
  LET t == trimStart(text)
      negative == t # <<>> /\ Head(t) = "-"
      body == IF negative THEN Tail(t) ELSE t
      k == leadingDigits(body)
      rest == SubSeq(body, k + 1, Len(body))
      frac == IF rest # <<>> /\ Head(rest) = "."
                THEN SubSeq(Tail(rest), 1, leadingDigits(Tail(rest))) ELSE <<>>
      f == Len(frac)
      thousandths == IF f = 0 THEN 0
                     ELSE IF f = 1 THEN 100 * digitsValue(frac)
                     ELSE IF f = 2 THEN 10 * digitsValue(frac)
                     ELSE digitsValue(SubSeq(frac, 1, 3))
  IN  IF k = 0 /\ f = 0 THEN NaN
      ELSE number((IF negative THEN -1 ELSE 1)
                    * (1000 * digitsValue(SubSeq(body, 1, k)) + thousandths))

has(query, param) == param \in DOMAIN query

\* the errors of validateRetrievalRequest(query). query holds the parameters
\* that are present: q, limit, threshold and chapter as texts, type as the
\* list query.type.split(',').map(trim) gives
validationErrors(query) ==
  (IF has(query, "q") /\ Len(trim(query.q)) = 0 THEN {"q"} ELSE {})
  \cup (IF has(query, "type")
            /\ \E i \in 1..Len(query.type) : query.type[i] \notin {"C2U", "IC", "WM"}
          THEN {"type"} ELSE {})
  \cup (IF has(query, "chapter")
            /\ (parseInt(trim(query.chapter)).nan
                  \/ parseInt(trim(query.chapter)).value < 1
                  \/ parseInt(trim(query.chapter)).value > 10000)
          THEN {"chapter"} ELSE {})
  \cup (IF has(query, "limit")
            /\ (parseInt(query.limit).nan \/ parseInt(query.limit).value < 1
                  \/ parseInt(query.limit).value > 1000)
          THEN {"limit"} ELSE {})
  \cup (IF has(query, "threshold")
            /\ (parseFloat(query.threshold).nan
                  \/ parseFloat(query.threshold).value < 0
                  \/ parseFloat(query.threshold).value > 1000)
          THEN {"threshold"} ELSE {})

\* the retrievalContext the handler builds from validation.sanitized (the
\* threshold goes from thousandths to the unit of the scores)
retrievalContextOf(query) ==
  [query |-> IF has(query, "q") THEN trim(query.q) ELSE NoText,
   filters |-> [emptyFilter EXCEPT
                  !.type = IF has(query, "type")
                             THEN {query.type[i] : i \in 1..Len(query.type)}
                             ELSE {},
                  !.chapterNumber = IF has(query, "chapter")
                                      THEN parseInt(trim(query.chapter)).value
                                      ELSE UNDEFINED],
   limit |-> IF has(query, "limit") THEN parseInt(query.limit).value
             ELSE DEFAULT_RETRIEVAL_LIMIT,
   threshold |-> IF has(query, "threshold")
                   THEN parseFloat(query.threshold).value * 100 ELSE 0,
   includeWorldMemories |-> TRUE]

\* mutant: every error is answered as an unknown error
categorizeError_Unknown(error) ==
  [status |-> HTTP_INTERNAL_SERVER_ERROR, type |-> "database", isRetryable |-> FALSE]

\* categorizeError(error): a ValidationError, or the default for unknown errors
\* (no other class of error reaches the error handler from this route)
categorizeError(error) ==
  IF error.class = "ValidationError"
    THEN [status |-> HTTP_BAD_REQUEST, type |-> "validation", isRetryable |-> FALSE]
    ELSE [status |-> HTTP_INTERNAL_SERVER_ERROR, type |-> "database",
          isRetryable |-> FALSE]

\* the response of errorHandler(error)
errorHandler(query, error) ==
  [ran |-> FALSE, call |-> "GET /memories", query |-> query,
   status |-> categorizeError(error).status,
   success |-> FALSE,
   error |-> error.message,
   retrieved |-> FALSE]

\* GET /memories?query: the rate limiter lets the request pass or not, the
\* service is initialized or not, the parameters are validated, the retrieval
\* runs and its pack is sent
GetMemories(query) ==
  /\ \E allowed \in BOOLEAN, isInitialized \in BOOLEAN :
       IF ~allowed
         THEN lastQuery' = errorHandler(query, [class |-> "ValidationError",
                                                message |-> "Rate limit exceeded"])
       ELSE IF ~isInitialized
         THEN lastQuery' = errorHandler(query, [class |-> "ValidationError",
                                                message |-> "Service not initialized"])
       ELSE IF validationErrors(query) # {}
         THEN lastQuery' = errorHandler(query, [class |-> "ValidationError",
                                                message |-> "Query validation failed"])
       ELSE LET context == retrievalContextOf(query)
            IN  \E base \in getMemories(memories, context.filters) :
                \E worldMemories \in
                     (IF context.filters.chapterNumber # UNDEFINED
                        THEN getActiveMemoriesAtChapter(
                               memories, context.filters.chapterNumber,
                               [emptyFilter EXCEPT !.type = {"WM"},
                                                   !.status = "active"])
                        ELSE {<<>>}) :
                \E semantic \in (IF context.query = NoText
                                   THEN {[i \in 1..Len(memories) |-> 0]}
                                   ELSE [1..Len(memories) -> SemanticLevels]) :
                  lastQuery' =
                    [ran |-> FALSE, call |-> "GET /memories", query |-> query,
                     status |-> HTTP_OK,
                     success |-> TRUE,
                     data |-> retrieveMemories(context, base \o worldMemories,
                                               semantic),
                     retrieved |-> TRUE]
  /\ UNCHANGED <<entities, memories, now, pc, loc>>

\* requests: each parameter absent, valid, or invalid in one of several ways
Requests ==
  LET \* the text of a chapter number below 10
      chapterText(n) == <<Digits[n + 1]>>
  IN
  LET opt(name, values) == {<<>>} \cup {<<name, v>> : v \in values}
      choices ==
        { <<q, t, c, l, th>> :
            q \in opt("q", {<<"A","l">>}),
            t \in opt("type", {<<"IC">>, <<"XX">>, <<"IC","XX">>}),
            c \in opt("chapter", {chapterText(MaxChapter)}),
            l \in opt("limit", {<<"1">>, <<"0">>, <<"-","1">>, <<"x">>}),
            th \in opt("threshold", {<<"0">>, <<"1",".","5">>, <<"-","0",".","1">>}) }
  IN  { [name \in {ch[i][1] : i \in {j \in 1..5 : ch[j] # <<>>}} |->
           ch[CHOOSE i \in 1..5 : ch[i] # <<>> /\ ch[i][1] = name][2]] :
          ch \in choices }

NextApi ==
  \/ \E memory \in PageMemories : StartIngest(1, memory)
  \/ Lookup(1)
  \/ IngestStep(1)
  \/ Return(1)
  \/ \E query \in Requests :
       pc[1] = "idle" /\ lastQuery = NoQuery /\ GetMemories(query)

SpecApi == Init /\ [][NextApi]_vars

Answered == lastQuery # NoQuery /\ lastQuery.call = "GET /memories"

\* C26: a GET /memories request with an invalid parameter is answered with
\* status 400 and success = false, and no retrieval is run for it.
C26_InvalidRequestRejected ==
  LET \* a request of Requests with an invalid parameter: a limit that is no number,
      \* below 1 or above 1000, a threshold that is no number or outside [0,1], a
      \* type that is none of C2U, IC, WM
      invalidParameter(query) ==
        \/ has(query, "limit") /\ query.limit \notin {<<"1">>}
        \/ has(query, "threshold") /\ query.threshold \notin {<<"0">>}
        \/ has(query, "type") /\ \E i \in 1..Len(query.type) : query.type[i] = "XX"
  IN
  (Answered /\ invalidParameter(lastQuery.query)) =>
    /\ lastQuery.status = HTTP_BAD_REQUEST
    /\ ~lastQuery.success
    /\ ~lastQuery.retrieved

\* a request with limit=-1 was answered while a fact is stored
C26_Witness ==
  /\ Answered
  /\ has(lastQuery.query, "limit") /\ lastQuery.query.limit = <<"-","1">>
  /\ Len(memories) > 0
  /\ lastQuery.status = HTTP_BAD_REQUEST

----------------------------------------------------------------------------
(* Properties of the supersession links *)

\* no call is between two of its statements
Quiescent == \A p \in Procs : pc[p] \in {"idle", "done"}

\* C27: when the ingest calls have completed (none crashed, no write failed),
\* every fact with status superseded has exactly one fact whose supersedes_id
\* points to it, and every supersedes_id points to an existing fact with status
\* superseded.
C27_SupersededHasOneSuccessor ==
  LET \* the rows whose supersedes_id is the id of the row at i
      successors(i) ==
        {j \in 1..Len(memories) : memories[j].supersedes_id = memories[i].id}
  IN
  Quiescent =>
    /\ \A i \in 1..Len(memories) :
         memories[i].status = "superseded" => Cardinality(successors(i)) = 1
    /\ \A j \in 1..Len(memories) :
         memories[j].supersedes_id # NULL =>
           \E i \in 1..Len(memories) :
             /\ memories[i].id = memories[j].supersedes_id
             /\ memories[i].status = "superseded"

\* C28: when ingest calls of one conflict key that ran concurrently (with the
\* same or with different canonical_fact) have completed, at most one fact of
\* that key is active, as after running them one after the other.
C28_ConcurrentIngestsOneActive ==
  LET \* the active rows with the conflict key of the row at i
      activeOfKey(i) ==
        {j \in 1..Len(memories) :
           /\ memories[j].status = "active"
           /\ conflictKey(memories[j]) = conflictKey(memories[i])}
  IN
  Quiescent =>
    \A i \in 1..Len(memories) : Cardinality(activeOfKey(i)) <= 1

----------------------------------------------------------------------------
(* The merge of world facts into the candidates *)

\* C29: when world facts are merged into the candidates (includeWorldMemories
\* with a chapterNumber), the returned list holds no fact id twice and
\* totalCount counts every candidate fact once.
C29_WorldFactsMergedOnce ==
  LET \* the ids of the facts of a list
      factIds(mems) == {mems[i].id : i \in 1..Len(mems)}
  IN
  (Retrieved /\ lastQuery.context.includeWorldMemories
     /\ lastQuery.context.filters.chapterNumber # UNDEFINED) =>
    /\ \A i, j \in 1..Len(lastQuery.memories) :
         i # j => lastQuery.memories[i].id # lastQuery.memories[j].id
    /\ lastQuery.totalCount = Cardinality(factIds(lastQuery.candidates))

----------------------------------------------------------------------------
(* The windows of a fact and of its successor *)

\* the row at j supersedes the row at i
supersedesRow(j, i) ==
  /\ memories[j].supersedes_id # NULL
  /\ memories[j].supersedes_id = memories[i].id

----------------------------------------------------------------------------
(* Retrieval by the name of an entity *)

\* Calls run one at a time, retrievals with filters.characterName among them.
NextByName ==
  \/ \E memory \in { candidate("IC", <<Alice>>, <<Bob>>, "Alice trusts Bob", 1, NULL),
                      candidate("IC", <<Bob>>, <<World>>, "Bob fears the world", 1, NULL),
                      candidate("IC", <<Bob>>, <<World>>, "Bob loves the world", 1, NULL),
                      candidate("WM", <<World>>, <<>>, "The world is old", 1, NULL) } :
       StartIngest(1, memory)
  \/ ResolveStep(1)
  \/ IngestStep(1)
  \/ Return(1)
  \/ \E characterName \in {Alice, Bob, toLowerCase(Alice), <<"C","a","r","o","l">>},
        chapterNumber \in {UNDEFINED, 1}, includeWorldMemories \in BOOLEAN :
       /\ pc[1] = "idle" /\ lastQuery = NoQuery
       /\ Retrieve([RetrievalContext(NoText, chapterNumber, UNDEFINED, UNDEFINED,
                                     includeWorldMemories)
                      EXCEPT !.filters = [characterName |-> characterName] @@ @])

SpecByName == Init /\ [][NextByName]_vars

\* C31: when retrieve is given an entity-name filter, every returned non-world
\* fact has the entity of that name among its subjects or objects; when the
\* name matches no entity, no non-world fact is returned.
C31_NameFilterApplied ==
  (Retrieved /\ "characterName" \in DOMAIN lastQuery.context.filters) =>
    LET named == getEntityByNameOrAlias(entities,
                                        lastQuery.context.filters.characterName)
    IN  \A i \in 1..Len(lastQuery.memories) :
          LET memory == lastQuery.memories[i]
          IN  memory.type # "WM" =>
                /\ named # NULL
                /\ \E k \in 1..Len(memory.subjects \o memory.objects) :
                     (memory.subjects \o memory.objects)[k] = idText(named)

----------------------------------------------------------------------------
(* ingestChapter: request 2 runs the chapter, its calls of
   processMemoryWithConflictResolution run as call 1 *)

\* ingestChapter(chapter) is called and extractMemories throws (the outer catch
\* returns one error) or returns memoriesExtracted (returned at once when empty)
IngestChapter(memoriesExtracted, extractionThrows) ==
  /\ \A p \in Procs : pc[p] = "idle"
  /\ LET l == [memoriesExtracted |-> memoriesExtracted]
              @@ [chaptersFrame(<<memoriesExtracted[1].valid_from>>, FALSE)
                    EXCEPT !.call = "ingestChapter"]
     IN  IF extractionThrows
           THEN goto(2, [pc |-> "done",
                         loc |-> [l EXCEPT !.extractionFailed = TRUE,
                                           !.errors = 1,
                                           !.chaptersProcessed = 1]])
           ELSE goto(2, [pc |-> "chapter_memory",
                         loc |-> [l EXCEPT !.pending = memoriesExtracted]])
  /\ lastQuery' = NoQuery
  /\ UNCHANGED <<entities, memories, now>>

\* the loop over memoriesExtracted is over: ingestChapter returns its counters
ReturnChapter ==
  /\ pc[2] = "chapter_end"
  /\ loc[2].call = "ingestChapter"
  /\ goto(2, [pc |-> "done", loc |-> [loc[2] EXCEPT !.chaptersProcessed = 1]])
  /\ lastQuery' = NoQuery
  /\ UNCHANGED <<entities, memories, now>>

\* One chapter at a time; the statements of a candidate and the UPDATE of its
\* embedding may fail. The oracle returns one or two candidates of the chapter.
NextChapter ==
  \/ \E chapterNumber \in {1}, extractionThrows \in BOOLEAN :
     \E memoriesExtracted \in
          LET facts == { candidate("IC", <<Alice>>, <<World>>, cf, chapterNumber, NULL) :
                           cf \in {"Alice fears the world", "Alice loves the world"} }
          IN  { <<m>> : m \in facts } \cup { <<m1, m2>> : m1 \in facts, m2 \in facts } :
       IngestChapter(memoriesExtracted, extractionThrows)
  \/ StartChapterMemory
  \/ ResolveStep(1)
  \/ IngestStep(1)
  \/ Fault(1)
  \/ UpdateMemoryEmbedding(1)
  \/ UpdateMemoryEmbeddingFails(1)
  \/ ChapterMemoryDone
  \/ ReturnChapter
  \/ Return(2)

SpecChapter == Init /\ [][NextChapter]_vars

\* C32: once the ingestion of a candidate has completed without error, the row
\* it inserted (outcome created or superseded) has an embedding stored.
C32_InsertedRowHasEmbedding ==
  [][(/\ pc[2] = "chapter_memory" /\ pc[1] = "done" /\ pc'[1] = "idle"
      /\ loc[1].result.action \in {"created", "superseded"}) =>
       hasEmbedding(getMemoryById(memories', loc[1].result.id))]_vars

\* C33: ingestChapter handles each of the n extracted candidates on its own: at
\* its return every candidate has been taken, each is counted once as created,
\* superseded, duplicated or as an error, and conflictsResolved is
\* memoriesSuperseded.
C33_EveryCandidateCounted ==
  (pc[2] = "done" /\ loc[2].call = "ingestChapter" /\ ~loc[2].extractionFailed) =>
    /\ loc[2].pending = <<>>
    /\ loc[2].memoriesCreated + loc[2].memoriesSuperseded
         + loc[2].memoriesDuplicated + loc[2].errors = Len(loc[2].memoriesExtracted)
    /\ loc[2].conflictsResolved = loc[2].memoriesSuperseded

\* the first of two candidates failed before its INSERT and the second one was
\* stored all the same
C33_Witness ==
  /\ pc[2] = "done" /\ loc[2].call = "ingestChapter" /\ ~loc[2].extractionFailed
  /\ Len(loc[2].memoriesExtracted) = 2
  /\ loc[2].errors = 1 /\ loc[2].memoriesCreated = 1
  /\ Len(memories) = 1
  /\ memories[1].canonical_fact = loc[2].memoriesExtracted[2].canonical_fact
  /\ memories[1].canonical_fact # loc[2].memoriesExtracted[1].canonical_fact

----------------------------------------------------------------------------
(* Termination of the backward walk *)

\* C34: on every store that ingests reach, each supersedes_id names a fact
\* inserted earlier, so the relation has no cycle, and the backward walk of
\* getSupersessionChain from any fact ends at a fact whose supersedes_id is
\* null after fewer steps than there are facts.
C34_WalkTerminates ==
  \A j \in 1..Len(memories) :
    /\ memories[j].supersedes_id # NULL =>
         \E i \in 1..(j - 1) : memories[i].id = memories[j].supersedes_id
    /\ LET walk == walkBackwards(memories, memories[j])
           last == IF walk = <<>> THEN memories[j] ELSE walk[Len(walk)]
       IN  Len(walk) < j /\ last.supersedes_id = NULL

\* the chain of the third fact of a chain has been read: the walk took two steps
C34_Witness ==
  /\ ChainRead
  /\ Len(memories) = 3
  /\ lastQuery.memoryId = memories[3].id
  /\ memories[3].supersedes_id = memories[2].id
  /\ memories[2].supersedes_id = memories[1].id
  /\ Len(lastQuery.supersedes) = 2

----------------------------------------------------------------------------
(* supersedeDuplicates: request 2 runs the method, its calls of findConflicting
   and supersedeMemory run as call 1 *)

\* supersedeDuplicates(memory) is called: findConflicting(memory) starts
StartSupersedeDuplicates(memory) ==
  /\ \A p \in Procs : pc[p] = "idle"
  /\ Len(memories) <= MaxMemories
  /\ pc' = [pc EXCEPT ![1] = "lookup", ![2] = "find_conflicting"]
  /\ loc' = [loc EXCEPT
               ![1] = resolveEntities([IdleLoc EXCEPT !.call = "findConflicting",
                                                      !.memory = memory],
                                      "findConflicting"),
               ![2] = [conflicts |-> <<>>, before |-> 0]
                      @@ [IdleLoc EXCEPT !.call = "supersedeDuplicates",
                                         !.memory = memory]]
  /\ lastQuery' = NoQuery
  /\ UNCHANGED <<entities, memories, now>>

\* findConflicting's SELECT returns conflicts; the loop will call supersedeMemory
\* for those whose canonical_fact differs from memory's
SelectConflicts ==
  /\ pc[1] = "select" /\ pc[2] = "find_conflicting"
  /\ LET l == loc[1]
         conflicts == findConflictingRows(memories, l.memory, l.subjectIds,
                                          l.objectIds)
         differs(conflict) == conflict.canonical_fact # l.memory.canonical_fact
         toSupersede == SelectSeq(conflicts, differs)
     IN  /\ pc' = [pc EXCEPT ![1] = "idle", ![2] = "supersede_loop"]
         /\ loc' = [loc EXCEPT
                      ![1] = IdleLoc,
                      ![2] = [@ EXCEPT !.before = Len(conflicts),
                                       !.conflicts = [i \in 1..Len(toSupersede) |->
                                                        toSupersede[i].id]]]
  /\ lastQuery' = NoQuery
  /\ UNCHANGED <<entities, memories, now>>

\* the loop over conflicts: supersedeMemory(conflict.id, memory) is called for
\* the next differing conflict, or the loop is over and supersedeDuplicates
\* returns
SupersedeLoop ==
  /\ pc[2] = "supersede_loop"
  /\ pc[1] \in {"idle", "done"}
  /\ IF loc[2].conflicts = <<>>
       THEN /\ pc' = [pc EXCEPT ![1] = "idle", ![2] = "done"]
            /\ loc' = [loc EXCEPT ![1] = IdleLoc]
            /\ UNCHANGED now
       ELSE \E t \in 0..MaxClock :
              /\ ReadClock(t)
              /\ pc' = [pc EXCEPT ![1] = "lookup"]
              /\ loc' = [loc EXCEPT
                           ![1] = resolveEntities(
                                    [IdleLoc EXCEPT !.call = "supersedeMemory",
                                                    !.memory = loc[2].memory,
                                                    !.oldMemoryId = Head(loc[2].conflicts),
                                                    !.ts = t],
                                    "supersedeMemory"),
                           ![2] = [@ EXCEPT !.conflicts = Tail(@)]]
  /\ lastQuery' = NoQuery
  /\ UNCHANGED <<entities, memories>>

\* Ingests of two requests interleave; supersedeDuplicates runs while no ingest
\* does.
NextDuplicates ==
  \/ \E p \in Procs,
        memory \in { candidate("WM", <<World>>, <<>>, cf, 1, NULL) :
                       cf \in {"The world is old", "The world is new"} } :
       \/ pc[2] \in {"idle", "lookup", "select", "save_insert", "supersede_update",
                      "supersede_insert", "done"}
            /\ loc[2].call # "supersedeDuplicates"
            /\ StartIngest(p, memory)
       \/ p = 1 /\ StartSupersedeDuplicates(memory)
  \/ \E p \in Procs : Lookup(p) \/ IngestStep(p) \/ Return(p)
  \/ SelectConflicts
  \/ SupersedeLoop

SpecDuplicates == Init /\ [][NextDuplicates]_vars

\* C35: after supersedeDuplicates(memory) returns, exactly one active fact has
\* the conflict key of memory, whatever the number of conflicting active facts
\* before the call.
C35_OneActiveAfterSupersedeDuplicates ==
  (pc[2] = "done" /\ loc[2].call = "supersedeDuplicates") =>
    Cardinality({ i \in 1..Len(memories) :
                    /\ memories[i].status = "active"
                    /\ conflictKey(memories[i]) = <<"WM", loc[2].memory.predicate,
                                                    <<DEFAULT_WORLD_ID>>, <<>>>> }) = 1

----------------------------------------------------------------------------
(* validateRequestRate: the rate limit of a client on an endpoint *)

MaxAdvances == 2      \* calls that arrive later than the call before them
MaxRejected == 2      \* calls counted above maxRequests in one window

\* mutant: one call more than maxRequests is allowed
validateRequestRate_OneMore(ip, endpoint, storage, time) ==
  LET ingest == <<"i","n","g","e","s","t">>
      key == ip \o <<":">> \o endpoint
      windowMs == IF endpoint = ingest THEN 15 * 60 * 1000 ELSE 60 * 1000
      maxRequests == IF endpoint = ingest THEN 5 ELSE 100
      fresh == key \notin DOMAIN storage \/ time - storage[key].windowStart > windowMs
      windowStart == IF fresh THEN time ELSE storage[key].windowStart
      requests == (IF fresh THEN 0 ELSE storage[key].requests) + 1
      remaining == maxRequests - requests
  IN  [storage |-> [k \in DOMAIN storage \cup {key} |->
                      IF k = key THEN [windowStart |-> windowStart, requests |-> requests]
                      ELSE storage[k]],
       key |-> key, windowMs |-> windowMs, maxRequests |-> maxRequests,
       allowed |-> requests <= maxRequests + 1,
       resetTime |-> windowStart + windowMs,
       remaining |-> IF remaining > 0 THEN remaining ELSE 0]

\* validateRequestRate(ip, endpoint, storage) at Date.now() = time: what it
\* returns, and the storage it leaves
validateRequestRate(ip, endpoint, storage, time) ==
  LET ingest == <<"i","n","g","e","s","t">>
      key == ip \o <<":">> \o endpoint
      windowMs == IF endpoint = ingest THEN 15 * 60 * 1000 ELSE 60 * 1000
      maxRequests == IF endpoint = ingest THEN 5 ELSE 100
      fresh == key \notin DOMAIN storage \/ time - storage[key].windowStart > windowMs
      windowStart == IF fresh THEN time ELSE storage[key].windowStart
      requests == (IF fresh THEN 0 ELSE storage[key].requests) + 1
      remaining == maxRequests - requests
  IN  [storage |-> [k \in DOMAIN storage \cup {key} |->
                      IF k = key THEN [windowStart |-> windowStart, requests |-> requests]
                      ELSE storage[k]],
       key |-> key, windowMs |-> windowMs, maxRequests |-> maxRequests,
       allowed |-> requests <= maxRequests,
       resetTime |-> windowStart + windowMs,
       remaining |-> IF remaining > 0 THEN remaining ELSE 0]

\* no request has arrived: rateLimitStorage is empty. (allowedInWindow counts,
\* for each key, the calls allowed since the window of the key began.)
InitRate ==
  /\ entities = seedDefaultData
  /\ memories = <<>>
  /\ now = 0
  /\ pc = [p \in Procs |-> "idle"]
  /\ loc = [p \in Procs |-> IdleLoc]
  /\ lastQuery = [ran |-> FALSE, call |-> "validateRequestRate", calls |-> 0,
                  time |-> 0, advances |-> 0, storage |-> <<>>,
                  allowedInWindow |-> <<>>]

\* a request of client ip to endpoint arrives delay milliseconds after the one
\* before it: rateLimitMiddleware calls validateRequestRate
ValidateRequestRate(ip, endpoint, delay) ==
  /\ lastQuery.call = "validateRequestRate"
  /\ delay > 0 => lastQuery.advances < MaxAdvances
  /\ LET time == lastQuery.time + delay
         before == lastQuery.storage
         rateLimit == validateRequestRate(ip, endpoint, before, time)
         key == rateLimit.key
         began == key \notin DOMAIN before
                    \/ rateLimit.storage[key].windowStart # before[key].windowStart
         counted == (IF began THEN 0 ELSE lastQuery.allowedInWindow[key])
                      + (IF rateLimit.allowed THEN 1 ELSE 0)
     IN  /\ rateLimit.storage[key].requests <= rateLimit.maxRequests + MaxRejected
         /\ lastQuery' =
              [ran |-> FALSE, call |-> "validateRequestRate",
               calls |-> IF lastQuery.calls = 0 THEN 1 ELSE 2,
               time |-> time,
               advances |-> lastQuery.advances + (IF delay > 0 THEN 1 ELSE 0),
               storage |-> rateLimit.storage,
               allowedInWindow |->
                 [k \in DOMAIN rateLimit.storage |->
                    IF k = key THEN counted ELSE lastQuery.allowedInWindow[k]],
               before |-> before, rateLimit |-> rateLimit]
  /\ UNCHANGED <<entities, memories, now, pc, loc>>

\* Requests of one client to the two limited endpoints, at once, when the window
\* of the endpoint ends and one millisecond later.
NextRate ==
  \E endpoint \in {<<"i","n","g","e","s","t">>, <<"m","e","m","o","r","i","e","s">>} :
  \E delay \in {0} \cup (IF endpoint = <<"i","n","g","e","s","t">>
                           THEN {15 * 60 * 1000, 15 * 60 * 1000 + 1}
                           ELSE {60 * 1000, 60 * 1000 + 1}) :
    ValidateRequestRate(<<"1">>, endpoint, delay)

SpecRate == InitRate /\ [][NextRate]_vars

====
